---- MODULE Spec2Model ----
(***************************************************************************)
(* Teamwerk: the test integrity linter (test-integrity-linter.js) and the  *)
(* evidence report generator (scripts/report-generator.js).                *)
(*                                                                         *)
(* Text is modelled as a sequence of lexemes: every punctuation character  *)
(* and every blank is one lexeme, a maximal run of word characters is one  *)
(* lexeme, and a few dotted names that the rules only ever match as a      *)
(* whole ("page.evaluate", "document.getElementById", ...) are one lexeme. *)
(* The regular expressions of the source are translated element by element *)
(* and run by a backtracking matcher with JavaScript's priorities (greedy  *)
(* longest first, lazy shortest first, alternatives left to right).        *)
(***************************************************************************)
EXTENDS Integers, Sequences, FiniteSets, TLC

(***************************************************************************)
(* Bounds of the model.                                                    *)
(***************************************************************************)
\* lines of a test file given to a single-file run
MaxLines == 2
\* files present in the file system of a batch run
MaxFiles == 2

NoArg == "<null>"

(***************************************************************************)
(* Regular expressions over lexemes.                                       *)
(***************************************************************************)
NL == "\n"
WS == {" ", NL}

Words ==
  { "style", "display", "hidden", "innerHTML", "outerHTML", "className",
    "classList", "add", "remove", "toggle", "title", "el", "h", "x", "m",
    "none", "block", "flex", "grid", "inline", "inherit", "true", "modal",
    "async", "function", "return", "await", "new", "MutationObserver",
    "getComputedStyle", "expect", "toBe", "arguments", "0", "1" }

Dotted ==
  { "page.evaluate", "page.addStyleTag", "page.addScriptTag",
    "document.getElementById", "document.querySelector",
    "driver.ExecuteScript", "driver.execute_script" }

\* the backtick character (it cannot be written in a string of this language)
BQ == "<backtick>"
Punct == { "(", ")", "{", "}", "[", "]", ".", "=", "=>", ";", ",", "'", "\"", BQ }

Lexemes == Words \cup Dotted \cup Punct \cup WS

Lit(t) == [k |-> "lit", s |-> {t}]
OneOf(S) == [k |-> "lit", s |-> S]
Star(S) == [k |-> "rep", s |-> S, min |-> 0]
Plus(S) == [k |-> "rep", s |-> S, min |-> 1]
Lazy == [k |-> "lazy"]
Alt(ps) == [k |-> "alt", ps |-> ps]
Opt(p) == [k |-> "alt", ps |-> <<p, <<>>>>]
Eos == [k |-> "eos"]
Ws == Star(WS)

RECURSIVE Run(_, _, _)
Run(c, S, pos) ==
  IF pos <= Len(c) /\ c[pos] \in S THEN 1 + Run(c, S, pos + 1) ELSE 0

\* MatchAt(c, pat, pos): the position after the match of pat that starts at
\* pos, the one the backtracking engine finds first; 0 when there is none.
RECURSIVE MatchAt(_, _, _), TryGreedy(_, _, _, _, _), TryLazy(_, _, _, _), TryAlt(_, _, _, _)
MatchAt(c, pat, pos) ==
  IF Len(pat) = 0 THEN pos
  ELSE LET e == Head(pat)
           rest == Tail(pat)
       IN CASE e.k = "lit" ->
                 IF pos <= Len(c) /\ c[pos] \in e.s
                 THEN MatchAt(c, rest, pos + 1) ELSE 0
            [] e.k = "rep" -> TryGreedy(c, rest, pos, Run(c, e.s, pos), e.min)
            [] e.k = "lazy" -> TryLazy(c, rest, pos, 0)
            [] e.k = "alt" -> TryAlt(c, e.ps, rest, pos)
            [] e.k = "eos" ->
                 IF pos = Len(c) + 1 THEN MatchAt(c, rest, pos) ELSE 0

TryGreedy(c, rest, pos, n, min) ==
  IF n < min THEN 0
  ELSE LET r == MatchAt(c, rest, pos + n)
       IN IF r # 0 THEN r ELSE TryGreedy(c, rest, pos, n - 1, min)

TryLazy(c, rest, pos, n) ==
  IF pos + n > Len(c) + 1 THEN 0
  ELSE LET r == MatchAt(c, rest, pos + n)
       IN IF r # 0 THEN r ELSE TryLazy(c, rest, pos, n + 1)

TryAlt(c, ps, rest, pos) ==
  IF Len(ps) = 0 THEN 0
  ELSE LET r == MatchAt(c, Head(ps) \o rest, pos)
       IN IF r # 0 THEN r ELSE TryAlt(c, Tail(ps), rest, pos)

\* RegExp.prototype.test: a match starting anywhere
RegexTest(pat, c) == \E pos \in 1..(Len(c) + 1) : MatchAt(c, pat, pos) # 0

\* String.prototype.match with the g flag: the non-overlapping matches from
\* left to right, each as <<start, end>> (end exclusive)
RECURSIVE MatchSpans(_, _, _)
MatchSpans(c, pat, from) ==
  IF from > Len(c) THEN <<>>
  ELSE LET e == MatchAt(c, pat, from)
       IN IF e = 0 THEN MatchSpans(c, pat, from + 1)
          ELSE <<(<<from, e>>)>> \o MatchSpans(c, pat, IF e > from THEN e ELSE from + 1)

\* the array of matched texts that content.match(re) returns
GlobalMatch(c, pat) ==
  LET spans == MatchSpans(c, pat, 1)
  IN [i \in 1..Len(spans) |-> SubSeq(c, spans[i][1], spans[i][2] - 1)]

\* String.prototype.indexOf, 1-based; 0 when absent
IndexOf(c, m) ==
  LET hits == { i \in 1..(Len(c) - Len(m) + 1) : SubSeq(c, i, i + Len(m) - 1) = m }
  IN IF hits = {} THEN 0 ELSE CHOOSE i \in hits : \A j \in hits : i <= j

\* content.split('\n')
RECURSIVE SplitLines(_)
SplitLines(c) ==
  LET nls == { i \in 1..Len(c) : c[i] = NL }
  IN IF nls = {} THEN <<c>>
     ELSE LET i == CHOOSE x \in nls : \A y \in nls : x <= y
          IN <<SubSeq(c, 1, i - 1)>> \o SplitLines(SubSeq(c, i + 1, Len(c)))

\* lines.join('\n')
RECURSIVE JoinLines(_)
JoinLines(ls) ==
  IF Len(ls) = 0 THEN <<>>
  ELSE IF Len(ls) = 1 THEN ls[1]
  ELSE ls[1] \o <<NL>> \o JoinLines(Tail(ls))

Min(a, b) == IF a < b THEN a ELSE b
Max(a, b) == IF a > b THEN a ELSE b

\* Array.prototype.slice(from, to) with 0-based, end-exclusive indices
Slice(s, from, to) == SubSeq(s, from + 1, to)

RECURSIVE Flatten(_)
Flatten(ss) == IF Len(ss) = 0 THEN <<>> ELSE Head(ss) \o Flatten(Tail(ss))

(***************************************************************************)
(* The linter: file names and the rule catalog.                            *)
(***************************************************************************)
AUTO_DETECT_DIRS == <<"tests", "test", "__tests__", "spec", "Tests">>

SKIP_DIRS == {"node_modules", ".git", "bin", "obj", "__pycache__", ".venv", "venv"}

\* a character other than a line terminator (the regular expression's dot)
Dot == OneOf(Lexemes \ {NL})
NameChars == { "a", "b", "c", "x", "helper", "Login", "login", "Tests", "test_", "_test",
               ".spec", ".test", ".js", ".ts", ".mjs", ".cs", ".py", ".go", ".md", "/",
               "tests", "e2e", "spec", "node_modules" }
NameDot == OneOf(NameChars)

TEST_FILE_PATTERNS ==
  << <<Lit(".spec"), Lit(".js"), Eos>>,
     <<Lit(".test"), Lit(".js"), Eos>>,
     <<Lit(".spec"), Lit(".ts"), Eos>>,
     <<Lit(".test"), Lit(".ts"), Eos>>,
     <<Lit(".spec"), Lit(".mjs"), Eos>>,
     <<Lit(".test"), Lit(".mjs"), Eos>>,
     <<Lit("Tests"), Lit(".cs"), Eos>>,
     <<Lit("test_"), Star(NameChars), Lit(".py"), Eos>>,
     <<Star(NameChars), Lit("_test"), Lit(".py"), Eos>>,
     <<Star(NameChars), Lit("_test"), Lit(".go"), Eos>> >>

isTestFile(filename) ==
  \E i \in 1..Len(TEST_FILE_PATTERNS) : RegexTest(TEST_FILE_PATTERNS[i], filename)

\* page\.evaluate\s*\(\s*(?:async\s*)?\(\s*\)\s*=>\s*\{[\s\S]*?
PageEvaluateOpen ==
  << Lit("page.evaluate"), Ws, Lit("("), Ws, Opt(<<Lit("async"), Ws>>),
     Lit("("), Ws, Lit(")"), Ws, Lit("=>"), Ws, Lit("{"), Lazy >>

W == Plus(Words)
NotRParen == Plus(Lexemes \ {")"})
Quote == OneOf({"'", "\"", BQ})
DisplayValue == OneOf({"none", "block", "flex", "grid", "inline", "inherit"})

ClassTail ==
  Alt(<< <<Lit("className"), Ws, Lit("=")>>,
         <<Lit("classList"), Ws, Lit("."), Ws, OneOf({"add", "remove", "toggle"})>> >>)

JS_VIOLATION_PATTERNS ==
  << [id |-> "DOM_STYLE_MUTATION", severity |-> "critical", lang |-> "js",
      pattern |-> PageEvaluateOpen \o
        <<Lit("."), Ws, Lit("style"), Ws, Lit("."), Ws, W, Ws, Lit("=")>>],
     [id |-> "DOM_HIDDEN_MUTATION", severity |-> "critical", lang |-> "js",
      pattern |-> PageEvaluateOpen \o <<Lit("."), Ws, Lit("hidden"), Ws, Lit("=")>>],
     [id |-> "DOM_HTML_MUTATION", severity |-> "critical", lang |-> "js",
      pattern |-> PageEvaluateOpen \o
        <<Lit("."), Ws, OneOf({"innerHTML", "outerHTML"}), Ws, Lit("=")>>],
     [id |-> "DOM_CLASS_MUTATION", severity |-> "critical", lang |-> "js",
      pattern |-> PageEvaluateOpen \o <<Lit("."), Ws, ClassTail>>],
     [id |-> "DOM_ELEMENT_REMOVAL", severity |-> "critical", lang |-> "js",
      pattern |-> PageEvaluateOpen \o
        <<Lit("."), Ws, Lit("remove"), Ws, Lit("("), Ws, Lit(")")>>],
     [id |-> "CSS_DISPLAY_OVERRIDE", severity |-> "critical", lang |-> "js",
      pattern |-> <<Lit("."), Lit("display"), Ws, Lit("="), Ws, Quote, DisplayValue>>],
     [id |-> "MUTATION_OBSERVER", severity |-> "critical", lang |-> "js",
      pattern |-> <<Lit("new"), Plus(WS), Lit("MutationObserver")>>],
     [id |-> "INJECTED_STYLE", severity |-> "critical", lang |-> "js",
      pattern |-> <<Lit("page.addStyleTag"), Ws, Lit("(")>>],
     [id |-> "INJECTED_SCRIPT", severity |-> "critical", lang |-> "js",
      pattern |-> <<Lit("page.addScriptTag"), Ws, Lit("(")>>],
     [id |-> "DOM_PROPERTY_SET", severity |-> "warning", lang |-> "js",
      pattern |-> PageEvaluateOpen \o
        <<Lit("document.getElementById"), Ws, Lit("("), NotRParen, Lit(")"),
          Ws, Lit("."), Ws, W, Ws, Lit("=")>>],
     [id |-> "DOM_QUERY_SET", severity |-> "warning", lang |-> "js",
      pattern |-> PageEvaluateOpen \o
        <<Lit("document.querySelector"), Ws, Lit("("), NotRParen, Lit(")"),
          Ws, Lit("."), Ws, W, Ws, Lit("=")>>] >>

\* the seven rules of a Selenium binding; call is the script-execution call
\* and pre the prefix of its rule ids
SeleniumPatterns(call, pre, lang) ==
  LET Open == <<Lit(call), Ws, Lit("("), Lazy>>
  IN << [id |-> pre \o "DOM_STYLE_MUTATION", severity |-> "critical", lang |-> lang,
         pattern |-> Open \o <<Lit("."), Lit("style"), Ws, Lit("."), Ws, W, Ws, Lit("=")>>],
        [id |-> pre \o "DOM_HIDDEN_MUTATION", severity |-> "critical", lang |-> lang,
         pattern |-> Open \o <<Lit("."), Lit("hidden"), Ws, Lit("=")>>],
        [id |-> pre \o "DOM_HTML_MUTATION", severity |-> "critical", lang |-> lang,
         pattern |-> Open \o <<Lit("."), OneOf({"innerHTML", "outerHTML"}), Ws, Lit("=")>>],
        [id |-> pre \o "DOM_CLASS_MUTATION", severity |-> "critical", lang |-> lang,
         pattern |-> Open \o <<Lit("."), ClassTail>>],
        [id |-> pre \o "DOM_ELEMENT_REMOVAL", severity |-> "critical", lang |-> lang,
         pattern |-> Open \o <<Lit("."), Lit("remove"), Ws, Lit("("), Ws, Lit(")")>>],
        [id |-> pre \o "CSS_DISPLAY_OVERRIDE", severity |-> "critical", lang |-> lang,
         pattern |-> Open \o <<Lit("."), Lit("display"), Ws, Lit("="), Ws, OneOf({"'", "\""})>>],
        [id |-> pre \o "DOM_PROPERTY_SET", severity |-> "warning", lang |-> lang,
         pattern |-> Open \o
           <<Lit("document.getElementById"), Ws, Lit("("), NotRParen, Lit(")"),
             Ws, Lit("."), Ws, W, Ws, Lit("=")>>] >>

CSHARP_VIOLATION_PATTERNS == SeleniumPatterns("driver.ExecuteScript", "CS_", "cs")

PYTHON_VIOLATION_PATTERNS == SeleniumPatterns("driver.execute_script", "PY_", "py")

ALL_VIOLATION_PATTERNS ==
  JS_VIOLATION_PATTERNS \o CSHARP_VIOLATION_PATTERNS \o PYTHON_VIOLATION_PATTERNS

\* getFileLanguage: the last lexeme of a path is its extension
getFileLanguage(filePath) ==
  IF RegexTest(<<Lit(".cs"), Eos>>, filePath) THEN "cs"
  ELSE IF RegexTest(<<Lit(".py"), Eos>>, filePath) THEN "py"
  ELSE IF RegexTest(<<Lit(".go"), Eos>>, filePath) THEN "go"
  ELSE "js"

\* the 1-based line of a 1-based offset: content.substring(0, i).split('\n').length
LineOf(content, offset) ==
  1 + Cardinality({ i \in 1..(offset - 1) : content[i] = NL })

\* the applicable rules of scanFile (lines 320-325)
applicablePatterns(lang) ==
  SelectSeq(ALL_VIOLATION_PATTERNS,
            LAMBDA rule : rule.lang = lang \/ (rule.lang = "js" /\ lang = "js"))

\* matchIndex of scanFile (line 332): the first place the matched text occurs
matchIndex(content, match) == IndexOf(content, match)

\* the violations one rule yields in scanFile (lines 328-348)
RuleViolations(file, content, rule) ==
  LET matches == GlobalMatch(content, rule.pattern)
      lines == SplitLines(content)
      Violation(match) ==
        LET lineNum == LineOf(content, matchIndex(content, match))
            contextStart == Max(0, lineNum - 3)
            contextEnd == Min(Len(lines), lineNum + 5)
        IN [file |-> file, line |-> lineNum, id |-> rule.id,
            severity |-> rule.severity,
            context |-> JoinLines(Slice(lines, contextStart, contextEnd))]
  IN [i \in 1..Len(matches) |-> Violation(matches[i])]

\* scanFile of a file that could be read: filePath is the path's lexemes
scanFile(file, filePath, content) ==
  LET rules == applicablePatterns(getFileLanguage(filePath))
  IN Flatten([r \in 1..Len(rules) |-> RuleViolations(file, content, rules[r])])

(***************************************************************************)
(* The linter's inputs: command line, directories and test files.          *)
(***************************************************************************)
\* the files the model's file systems are made of, in the order in which
\* a recursive listing (readdirSync, entries by name) meets them
FilePaths ==
  << "e2e/LoginTests.cs", "e2e/test_login.py", "e2e/xtest_a.py", "tests/a.md", "tests/a.spec.ts",
     "tests/b.test.js", "tests/c.spec.mjs", "tests/helper.ts", "tests/node_modules/c.spec.js",
     "tests/x_test.go" >>

DirPaths == <<"e2e", "spec", "tests", "tests/node_modules">>

\* path.dirname
Parent(p) ==
  CASE p \in {"e2e/LoginTests.cs", "e2e/test_login.py", "e2e/xtest_a.py"} -> "e2e"
    [] p \in {"tests/a.md", "tests/a.spec.ts", "tests/b.test.js", "tests/c.spec.mjs", "tests/helper.ts",
              "tests/x_test.go", "tests/node_modules"} -> "tests"
    [] p = "tests/node_modules/c.spec.js" -> "tests/node_modules"
    [] OTHER -> "."

\* path.basename, as lexemes
Name(p) ==
  CASE p = "e2e/LoginTests.cs" -> <<"Login", "Tests", ".cs">>
    [] p = "e2e/test_login.py" -> <<"test_", "login", ".py">>
    [] p = "tests/a.spec.ts" -> <<"a", ".spec", ".ts">>
    [] p = "tests/b.test.js" -> <<"b", ".test", ".js">>
    [] p = "tests/c.spec.mjs" -> <<"c", ".spec", ".mjs">>
    [] p = "e2e/xtest_a.py" -> <<"x", "test_", "a", ".py">>
    [] p = "tests/helper.ts" -> <<"helper", ".ts">>
    [] p = "tests/a.md" -> <<"a", ".md">>
    [] p = "tests/node_modules/c.spec.js" -> <<"c", ".spec", ".js">>
    [] p = "tests/x_test.go" -> <<"x", "_test", ".go">>
    [] p = "tests/node_modules" -> <<"node_modules">>
    [] OTHER -> <<p>>

\* a path as lexemes
RECURSIVE PathLexemes(_)
PathLexemes(p) ==
  IF Parent(p) = "." THEN Name(p) ELSE PathLexemes(Parent(p)) \o <<"/">> \o Name(p)

RECURSIVE Ancestors(_)
Ancestors(p) == IF Parent(p) = "." THEN {} ELSE {Parent(p)} \cup Ancestors(Parent(p))

sp == " "

\* page.evaluate(() => { document.getElementById('modal').style.display = 'none'; });
jsModal ==
  << "page.evaluate", "(", "(", ")", sp, "=>", sp, "{", sp, "document.getElementById", "(",
     "'", "modal", "'", ")", ".", "style", ".", "display", sp, "=", sp, "'", "none", "'",
     ";", sp, "}", ")", ";" >>
\* await page.evaluate(() => {
jsOpen == <<"await", sp, "page.evaluate", "(", "(", ")", sp, "=>", sp, "{">>
\* document.getElementById('modal').style.display = 'none';
jsModalBody ==
  << "document.getElementById", "(", "'", "modal", "'", ")", ".", "style", ".", "display",
     sp, "=", sp, "'", "none", "'", ";" >>
\* page.evaluate((el) => { el.hidden = true; }, h);
jsHiddenParam ==
  << "page.evaluate", "(", "(", "el", ")", sp, "=>", sp, "{", sp, "el", ".", "hidden", sp,
     "=", sp, "true", ";", sp, "}", ",", sp, "h", ")", ";" >>
\* el.hidden = true;
jsHiddenBody == <<"el", ".", "hidden", sp, "=", sp, "true", ";">>
\* page.evaluate(() => { return el.style.display === 'none'; });
jsCompare ==
  << "page.evaluate", "(", "(", ")", sp, "=>", sp, "{", sp, "return", sp, "el", ".",
     "style", ".", "display", sp, "=", "=", "=", sp, "'", "none", "'", ";", sp, "}", ")",
     ";" >>
\* page.evaluate(() => getComputedStyle(el).display);
jsReadComputed ==
  << "page.evaluate", "(", "(", ")", sp, "=>", sp, "getComputedStyle", "(", "el", ")",
     ".", "display", ")", ";" >>
\* page.addStyleTag({});
jsAddStyle == <<"page.addStyleTag", "(", "{", "}", ")", ";">>
\* page.evaluate(() => { document.getElementById('m').title = 'x'; });
jsTitleSet ==
  << "page.evaluate", "(", "(", ")", sp, "=>", sp, "{", sp, "document.getElementById", "(",
     "'", "m", "'", ")", ".", "title", sp, "=", sp, "'", "x", "'", ";", sp, "}", ")", ";" >>
\* expect(x).toBe(1);
jsPlain == <<"expect", "(", "x", ")", ".", "toBe", "(", "1", ")", ";">>
\* driver.ExecuteScript("document.getElementById('modal').style.display = 'none';");
csModal ==
  << "driver.ExecuteScript", "(", "\"", "document.getElementById", "(", "'", "modal", "'",
     ")", ".", "style", ".", "display", sp, "=", sp, "'", "none", "'", ";", "\"", ")", ";" >>
\* driver.execute_script("arguments[0].hidden = true", el)
pyHidden ==
  << "driver.execute_script", "(", "\"", "arguments", "[", "0", "]", ".", "hidden", sp, "=",
     sp, "true", "\"", ",", sp, "el", ")" >>

\* the lines the file of a single-file run is written from
LinesFor(f) ==
  CASE f = "tests/a.spec.ts" ->
         { jsModal, jsOpen, jsModalBody, jsHiddenParam, jsHiddenBody, jsCompare,
           jsReadComputed, jsAddStyle, jsTitleSet, jsPlain }
    [] f = "e2e/LoginTests.cs" -> { csModal, jsModal, jsPlain }
    [] f = "e2e/test_login.py" -> { pyHidden, csModal, jsPlain }
    [] OTHER -> { jsModal, jsPlain }

\* the one-line files of a batch run: clean, warning only, critical
BatchLinesFor(lang) ==
  CASE lang = "js" -> { jsPlain, jsTitleSet, jsModal }
    [] lang = "cs" -> { jsPlain, csModal }
    [] lang = "py" -> { jsPlain, pyHidden }
    [] OTHER -> { jsPlain }

Range(f) == { f[i] : i \in DOMAIN f }

Absent == [state |-> "absent", content |-> <<>>]

(***************************************************************************)
(* The linter's state.                                                     *)
(***************************************************************************)
VARIABLES
  args,           \* process.argv.slice(2)
  dirs,           \* the directories that exist
  disk,           \* the files: state (absent, unreadable, ok) and content
  pc,             \* where main is: start, scan, exited, crashed
  files,          \* the files to scan
  scanned,        \* how many of them the scan loop has done
  allViolations,  \* the violations collected so far
  stdout,         \* what console.log printed
  stderr,         \* what console.error (or the runtime) printed
  exitCode,       \* the process exit status, -1 while running
  results,        \* report generator: the parsed results JSON
  template,       \* report generator: the template text, as tokens
  AC_DEFINITIONS, \* report generator: AC id -> description, in key order
  AC_MINIMUMS,    \* report generator: AC id -> minimum test count
  projectName,    \* report generator: the name the resolver returned
  fsReads,        \* report generator: the paths the resolver looked at, in order
  allTests,       \* report generator: the ingested test records
  report,         \* report generator: the computed parts of the report
  output          \* report generator: the files written

lintVars ==
  <<args, dirs, disk, pc, files, scanned, allViolations, stdout, stderr, exitCode>>

repVars ==
  <<results, template, AC_DEFINITIONS, AC_MINIMUMS, projectName, fsReads, allTests,
    report, output>>

vars == <<lintVars, repVars>>

\* the report generator's state while the linter runs: nothing
RepIdle ==
  /\ results = <<>>
  /\ template = <<>>
  /\ AC_DEFINITIONS = <<>>
  /\ AC_MINIMUMS = <<>>
  /\ projectName = NoArg
  /\ fsReads = <<>>
  /\ allTests = <<>>
  /\ report = <<>>
  /\ output = <<>>

\* getArg (lines 26-30)
getArg(flag) ==
  LET idx == IndexOf(args, <<flag>>)
  IN IF idx = 0 \/ idx >= Len(args) THEN NoArg ELSE args[idx + 1]

\* hasFlag (line 31)
hasFlag(flag) == \E i \in 1..Len(args) : args[i] = flag

cliDir == getArg("--dir")
cliFile == getArg("--file")
jsonOutput == hasFlag("--json")
showSuggestions == hasFlag("--fix-suggestions")

\* fs.existsSync
existsSync(p) ==
  \/ p \in dirs
  \/ p \in Range(FilePaths) /\ disk[p].state # "absent"

isDirectory(p) == p \in dirs

\* resolveTestDirs (lines 41-54)
resolveTestDirs ==
  IF cliDir # NoArg THEN <<cliDir>>
  ELSE SelectSeq(AUTO_DETECT_DIRS, LAMBDA d : existsSync(d) /\ isDirectory(d))

\* everything the model's file systems can hold, in listing order
Listing ==
  << "e2e", "e2e/LoginTests.cs", "e2e/test_login.py", "e2e/xtest_a.py", "spec", "tests",
     "tests/a.md", "tests/a.spec.ts", "tests/b.test.js", "tests/c.spec.mjs", "tests/helper.ts",
     "tests/node_modules",
     "tests/node_modules/c.spec.js", "tests/x_test.go" >>

\* fs.readdirSync(dir, { withFileTypes: true })
readdirSync(dir) == SelectSeq(Listing, LAMBDA e : Parent(e) = dir /\ existsSync(e))

\* findTestFilesRecursive (lines 354-370)
RECURSIVE findTestFilesRecursive(_)
findTestFilesRecursive(dir) ==
  IF ~existsSync(dir) THEN <<>>
  ELSE LET entries == readdirSync(dir)
           Found(entry) ==
             IF isDirectory(entry)
             THEN IF Name(entry)[1] \in SKIP_DIRS THEN <<>>
                  ELSE findTestFilesRecursive(entry)
             ELSE IF isTestFile(Name(entry)) THEN <<entry>> ELSE <<>>
       IN Flatten([i \in 1..Len(entries) |-> Found(entries[i])])

\* a filter key that forgets the rule id
DedupKeyNoId(v) == <<v.file, v.line>>

\* a filter key that forgets the line
DedupKeyNoLine(v) == <<v.file, v.id>>

\* the duplicate filter of main (lines 428-435): the key is file:line:id
DedupKey(v) == <<v.file, v.line, v.id>>

Deduplicate(vs) ==
  LET Kept[i \in 0..Len(vs)] ==
        IF i = 0 THEN <<>>
        ELSE IF \E j \in 1..(i - 1) : DedupKey(vs[j]) = DedupKey(vs[i])
             THEN Kept[i - 1]
             ELSE Append(Kept[i - 1], vs[i])
  IN Kept[Len(vs)]

Critical(vs) == SelectSeq(vs, LAMBDA v : v.severity = "critical")
Warnings(vs) == SelectSeq(vs, LAMBDA v : v.severity = "warning")

\* status of the JSON summary (line 447)
SummaryStatus(critical, warnings) ==
  IF Len(critical) > 0 THEN "blocked" ELSE IF Len(warnings) > 0 THEN "warnings" ELSE "clean"

\* the exit status of the JSON mode (line 450)
JsonExitCode(critical) == IF Len(critical) > 0 THEN 1 ELSE 0

\* an exit status that blocks on warnings too
HumanExitCodeAny(all, critical) == IF Len(all) = 0 THEN 0 ELSE 1

\* the exit status of the human-readable mode (lines 454-498)
HumanExitCode(all, critical) ==
  IF Len(all) = 0 THEN 0 ELSE IF Len(critical) > 0 THEN 1 ELSE 0

Banner == IF jsonOutput THEN <<>> ELSE <<[t |-> "banner"]>>

\* main, up to the scan loop (lines 372-420)
LintDiscover ==
  /\ pc = "start"
  /\ UNCHANGED repVars
  /\ UNCHANGED <<args, dirs, disk, scanned, allViolations>>
  /\ IF cliFile # NoArg
     THEN IF ~existsSync(cliFile)
          THEN /\ IF jsonOutput
                  THEN /\ stdout' = <<[t |-> "json",
                                       v |-> [error |-> "File not found",
                                              violations |-> <<>>, files |-> 0]]>>
                       /\ stderr' = stderr
                  ELSE /\ stdout' = Banner
                       /\ stderr' = <<[t |-> "file-not-found", file |-> cliFile]>>
               /\ exitCode' = 1
               /\ pc' = "exited"
               /\ files' = files
          ELSE /\ files' = <<cliFile>>
               /\ stdout' = Banner \o (IF jsonOutput THEN <<>> ELSE <<[t |-> "scanning", n |-> 1]>>)
               /\ pc' = "scan"
               /\ UNCHANGED <<stderr, exitCode>>
     ELSE LET found == resolveTestDirs
              fs == Flatten([i \in 1..Len(found) |-> findTestFilesRecursive(found[i])])
          IN IF Len(found) = 0
             THEN /\ stdout' = IF jsonOutput
                               THEN <<[t |-> "json",
                                       v |-> [error |-> "No test directories found",
                                              violations |-> <<>>, files |-> 0]]>>
                               ELSE Banner \o <<[t |-> "no-test-directories"]>>
                  /\ exitCode' = 0
                  /\ pc' = "exited"
                  /\ UNCHANGED <<files, stderr>>
             ELSE IF Len(fs) = 0
             THEN /\ stdout' = IF jsonOutput
                               THEN <<[t |-> "json",
                                       v |-> [violations |-> <<>>, files |-> 0, critical |-> 0,
                                              warnings |-> 0, status |-> "clean"]]>>
                               ELSE Banner \o <<[t |-> "no-test-files"]>>
                  /\ exitCode' = 0
                  /\ pc' = "exited"
                  /\ files' = fs
                  /\ stderr' = stderr
             ELSE /\ files' = fs
                  /\ stdout' = Banner \o (IF jsonOutput THEN <<>>
                                          ELSE <<[t |-> "scanning", n |-> Len(fs)]>>)
                  /\ pc' = "scan"
                  /\ UNCHANGED <<stderr, exitCode>>

\* one turn of the scan loop (lines 423-426); readFileSync (line 314) throws
\* on a file that cannot be read, nothing catches it, and the runtime ends
\* the process with status 1
LintScanFile ==
  /\ pc = "scan"
  /\ scanned < Len(files)
  /\ UNCHANGED repVars
  /\ UNCHANGED <<args, dirs, disk, files, stdout>>
  /\ LET file == files[scanned + 1]
     IN IF disk[file].state # "ok"
        THEN /\ stderr' = Append(stderr, [t |-> "uncaught-exception", file |-> file])
             /\ exitCode' = 1
             /\ pc' = "crashed"
             /\ UNCHANGED <<scanned, allViolations>>
        ELSE /\ allViolations' =
                  allViolations \o scanFile(file, PathLexemes(file), disk[file].content)
             /\ scanned' = scanned + 1
             /\ UNCHANGED <<stderr, exitCode, pc>>

\* main after the scan loop (lines 428-499)
LintReport ==
  /\ pc = "scan"
  /\ scanned = Len(files)
  /\ UNCHANGED repVars
  /\ UNCHANGED <<args, dirs, disk, files, scanned, stderr>>
  /\ LET all == Deduplicate(allViolations)
         critical == Critical(all)
         warnings == Warnings(all)
     IN /\ allViolations' = all
        /\ pc' = "exited"
        /\ IF jsonOutput
           THEN /\ stdout' = Append(stdout,
                      [t |-> "json",
                       v |-> [files |-> Len(files), violations |-> all,
                              critical |-> Len(critical), warnings |-> Len(warnings),
                              status |-> SummaryStatus(critical, warnings)]])
                /\ exitCode' = JsonExitCode(critical)
           ELSE /\ stdout' =
                     IF Len(all) = 0 THEN Append(stdout, [t |-> "pass"])
                     ELSE stdout
                          \o [i \in 1..Len(critical) |->
                                [t |-> "critical", v |-> critical[i], fix |-> showSuggestions]]
                          \o [i \in 1..Len(warnings) |-> [t |-> "warning", v |-> warnings[i]]]
                          \o <<[t |-> "total", n |-> Len(all), critical |-> Len(critical),
                                warnings |-> Len(warnings)]>>
                          \o <<[t |-> IF Len(critical) > 0 THEN "blocked" ELSE "warnings-only"]>>
                /\ exitCode' = HumanExitCode(all, critical)

LintNext == LintDiscover \/ LintScanFile \/ LintReport

SingleFiles ==
  {"tests/a.spec.ts", "tests/helper.ts", "e2e/LoginTests.cs", "e2e/test_login.py", "tests/x_test.go",
   "tests/a.md"}

BatchFiles ==
  {"e2e/LoginTests.cs", "tests/a.spec.ts", "tests/b.test.js", "tests/helper.ts",
   "tests/node_modules/c.spec.js"}

FlagLists == {<<>>, <<"--json">>, <<"--fix-suggestions">>, <<"--json", "--fix-suggestions">>}

BatchArgs ==
  { d \o f : d \in {<<>>, <<"--dir", "tests">>, <<"--dir", "e2e">>},
             f \in {<<>>, <<"--json">>, <<"--fix-suggestions">>} }
  \cup {<<"--json", "--dir">>}

Lang(p) == getFileLanguage(PathLexemes(p))

\* a run on one named file: missing, unreadable, or of up to MaxLines lines
InitSingle ==
  \E f \in SingleFiles, flags \in FlagLists :
    /\ args = <<"--file", f>> \o flags
    /\ dirs = Ancestors(f)
    /\ \/ \E st \in {"absent", "unreadable"} :
            disk = [p \in Range(FilePaths) |->
                      IF p = f THEN [state |-> st, content |-> <<>>] ELSE Absent]
       \/ \E n \in 1..MaxLines :
            \E ls \in [1..n -> LinesFor(f)] :
              disk = [p \in Range(FilePaths) |->
                        IF p = f THEN [state |-> "ok", content |-> JoinLines(ls)] ELSE Absent]

AllBatchLines == UNION { BatchLinesFor(Lang(p)) : p \in BatchFiles }

\* a run on directories: up to MaxFiles one-line files, some unreadable
InitBatch ==
  \E present \in SUBSET BatchFiles, extra \in SUBSET {"tests", "e2e"} :
    /\ Cardinality(present) <= MaxFiles
    /\ args \in BatchArgs
    /\ dirs = UNION { Ancestors(p) : p \in present } \cup extra
    /\ \E unreadable \in SUBSET present, line \in [present -> AllBatchLines] :
         /\ \A p \in present :
              IF p \in unreadable THEN line[p] = jsPlain
              ELSE line[p] \in BatchLinesFor(Lang(p))
         /\ disk = [p \in Range(FilePaths) |->
                      IF p \notin present THEN Absent
                      ELSE IF p \in unreadable THEN [state |-> "unreadable", content |-> <<>>]
                      ELSE [state |-> "ok", content |-> line[p]]]

LintInit ==
  /\ InitSingle \/ InitBatch
  /\ RepIdle
  /\ pc = "start"
  /\ files = <<>>
  /\ scanned = 0
  /\ allViolations = <<>>
  /\ stdout = <<>>
  /\ stderr = <<>>
  /\ exitCode = -1

SpecLint == LintInit /\ [][LintNext]_vars

(***************************************************************************)
(* Properties of the linter.                                               *)
(***************************************************************************)
Exited == pc = "exited"
Ended == pc \in {"exited", "crashed"}

FileMissing == cliFile # NoArg /\ ~existsSync(cliFile)

HasCritical(vs) == \E i \in 1..Len(vs) : vs[i].severity = "critical"

\* the lines of the one file of a single-file run
OnlyFile == files[1]
OnlyLines == SplitLines(disk[OnlyFile].content)
SingleScanDone == Exited /\ Len(files) = 1 /\ cliFile # NoArg

\* what every scanned file yields, before the duplicate filter
RawViolations ==
  Flatten([i \in 1..Len(files) |->
             scanFile(files[i], PathLexemes(files[i]), disk[files[i]].content)])

C2_MissingDirExitsOne ==
  (Ended /\ cliFile = NoArg /\ cliDir # NoArg /\ ~existsSync(cliDir)) => exitCode = 1

\* C3: in a batch of several files a file that cannot be read is skipped
\* with a diagnostic: the run still reaches its report, the violations of
\* every other file are reported and they decide the exit status.
C3_ReadFailureSkipsFile ==
  (Ended /\ Len(files) >= 2 /\ \E i \in 1..Len(files) : disk[files[i]].state = "unreadable")
    => /\ Exited
       /\ \A i \in 1..Len(files) :
            disk[files[i]].state = "ok" =>
              LET vs == scanFile(files[i], PathLexemes(files[i]), disk[files[i]].content)
              IN \A k \in 1..Len(vs) : \E j \in 1..Len(allViolations) : allViolations[j] = vs[k]
       /\ exitCode = 1 <=> HasCritical(allViolations)

\* the file holds the modal call and otherwise only lines without any
\* suspicious code: the call on one line, or opened on one line with the
\* assignment on the next
ModalCallOnly ==
  /\ Lang(OnlyFile) = "js"
  /\ \/ \E k \in 1..Len(OnlyLines) :
          /\ OnlyLines[k] = jsModal
          /\ \A i \in 1..Len(OnlyLines) : i # k => OnlyLines[i] = jsPlain
     \/ \E k \in 1..(Len(OnlyLines) - 1) :
          /\ OnlyLines[k] = jsOpen /\ OnlyLines[k + 1] = jsModalBody
          /\ \A i \in 1..Len(OnlyLines) : i \notin {k, k + 1} => OnlyLines[i] = jsPlain

\* C4 as stated: a script file whose only suspicious code is the
\* page.evaluate call that sets the modal's style.display yields exactly one
\* critical violation and exit status 1.
C4_ExactlyOneCritical ==
  (SingleScanDone /\ ModalCallOnly) =>
    Len(Critical(allViolations)) = 1 /\ exitCode = 1

\* C4 amended: such a file yields exactly two critical violations,
\* DOM_STYLE_MUTATION for the call and CSS_DISPLAY_OVERRIDE for the
\* assignment, no warning, and exit status 1.
C4_TwoCriticals ==
  (SingleScanDone /\ ModalCallOnly) =>
    /\ Len(Critical(allViolations)) = 2
    /\ { allViolations[i].id : i \in 1..Len(allViolations) } =
         {"DOM_STYLE_MUTATION", "CSS_DISPLAY_OVERRIDE"}
    /\ Len(Warnings(allViolations)) = 0
    /\ exitCode = 1

C4_Witness ==
  /\ SingleScanDone /\ ModalCallOnly
  /\ disk[OnlyFile].content = jsModal
  /\ Len(allViolations) = 2

\* the rule ids of the mutation kind
MutationKindIds ==
  { pre \o k : pre \in {"", "CS_", "PY_"},
               k \in {"DOM_STYLE_MUTATION", "DOM_HIDDEN_MUTATION", "DOM_HTML_MUTATION",
                      "DOM_CLASS_MUTATION"} }

\* the lines of the catalog that hold a whole script-execution call whose
\* body assigns to a DOM-mutating property, by language
MutatingCalls(lang) ==
  CASE lang = "js" -> {jsModal, jsHiddenParam}
    [] lang = "cs" -> {csModal}
    [] lang = "py" -> {pyHidden}
    [] OTHER -> {}

\* C5: a test file with a script-execution call whose body assigns to a
\* DOM-mutating property gets at least one critical violation with a
\* mutation-kind rule id, whatever the form of the callback.
C5_MutatingCallIsCritical ==
  (SingleScanDone /\ \E k \in 1..Len(OnlyLines) : OnlyLines[k] \in MutatingCalls(Lang(OnlyFile)))
    => \E i \in 1..Len(allViolations) :
         /\ allViolations[i].severity = "critical"
         /\ allViolations[i].id \in MutationKindIds

\* the lines of the catalog that only read: a comparison of a property
\* value, a computed-style read, an assertion
ReadOnlyLines == {jsCompare, jsReadComputed, jsPlain}

\* C6: a test file whose script-execution calls only read, and that assigns
\* to no property, gets no violation.
C6_ReadOnlyIsClean ==
  (SingleScanDone /\ \A k \in 1..Len(OnlyLines) : OnlyLines[k] \in ReadOnlyLines)
    => Len(allViolations) = 0

\* C7: in the reported list no two records share file, line and rule id;
\* records of one file and line with different rule ids are all kept; of
\* the records with one file, line and rule id the first produced is the
\* one kept, in its place.
C7_DedupByFileLineId ==
  (Exited /\ Len(files) > 0) =>
    LET raw == RawViolations
        out == allViolations
        Key(v) == <<v.file, v.line, v.id>>
    IN /\ \A i, j \in 1..Len(out) : i # j => Key(out[i]) # Key(out[j])
       /\ \A i \in 1..Len(raw) : \E j \in 1..Len(out) : out[j] = raw[i]
       /\ \A j \in 1..Len(out) : \E i \in 1..Len(raw) : out[j] = raw[i]
       /\ \A i, j \in 1..Len(out) :
            i < j =>
              (CHOOSE a \in 1..Len(raw) :
                 Key(raw[a]) = Key(out[i]) /\ \A b \in 1..(a - 1) : Key(raw[b]) # Key(out[i]))
              < (CHOOSE a \in 1..Len(raw) :
                   Key(raw[a]) = Key(out[j]) /\ \A b \in 1..(a - 1) : Key(raw[b]) # Key(out[j]))

C7_Witness ==
  /\ Exited /\ Len(files) > 0
  /\ Len(RawViolations) > Len(allViolations)
  /\ \E i, j \in 1..Len(allViolations) :
       /\ allViolations[i].file = allViolations[j].file
       /\ allViolations[i].line = allViolations[j].line
       /\ allViolations[i].id # allViolations[j].id

\* C8: every non-overlapping match of a critical rule in a scanned file has
\* a violation record of that rule in the output, at the line where that
\* match begins.
C8_EveryCriticalMatchReported ==
  (Exited /\ Len(files) > 0) =>
    \A i \in 1..Len(files) :
      LET content == disk[files[i]].content
          rules == applicablePatterns(Lang(files[i]))
      IN \A r \in 1..Len(rules) :
           rules[r].severity = "critical" =>
             LET spans == MatchSpans(content, rules[r].pattern, 1)
             IN \A m \in 1..Len(spans) :
                  \E j \in 1..Len(allViolations) :
                    /\ allViolations[j].file = files[i]
                    /\ allViolations[j].id = rules[r].id
                    /\ allViolations[j].line = LineOf(content, spans[m][1])

(***************************************************************************)
(* The report generator (scripts/report-generator.js).  Its texts are      *)
(* strings, taken apart character by character.                            *)
(***************************************************************************)
\* tests whose results the model's results file may hold
MaxSpecs == 3

Chars(s) == [i \in 1..Len(s) |-> SubSeq(s, i, i)]

Digit == {"0", "1", "2", "3", "4", "5", "6", "7", "8", "9"}
UpperSeq ==
  << "A", "B", "C", "D", "E", "F", "G", "H", "I", "J", "K", "L", "M", "N", "O", "P", "Q",
     "R", "S", "T", "U", "V", "W", "X", "Y", "Z" >>
LowerSeq ==
  << "a", "b", "c", "d", "e", "f", "g", "h", "i", "j", "k", "l", "m", "n", "o", "p", "q",
     "r", "s", "t", "u", "v", "w", "x", "y", "z" >>
Upper == Range(UpperSeq)
Lower == Range(LowerSeq)
\* \w
WordChar == Digit \cup Upper \cup Lower \cup {"_"}
\* \s, as far as the model's texts have it
Blank == {" ", "\t", "\n", "\r"}
\* what the dot of a regular expression does not match
LineTerminator == {"\n", "\r"}

SetMin(S) == CHOOSE x \in S : \A y \in S : x <= y
SetMax(S) == CHOOSE x \in S : \A y \in S : x >= y

\* the length of the longest run of characters outside S that starts at pos
RECURSIVE RunNot(_, _, _)
RunNot(c, S, pos) ==
  IF pos <= Len(c) /\ c[pos] \notin S THEN 1 + RunNot(c, S, pos + 1) ELSE 0

\* String.prototype.trim
Trim(s) ==
  LET c == Chars(s)
      keep == { i \in 1..Len(c) : c[i] \notin Blank }
  IN IF keep = {} THEN "" ELSE SubSeq(s, SetMin(keep), SetMax(keep))

\* String.prototype.split on the characters of seps
RECURSIVE Split(_, _)
Split(s, seps) ==
  LET c == Chars(s)
      hits == { i \in 1..Len(c) : c[i] \in seps }
  IN IF hits = {} THEN <<s>>
     ELSE LET i == SetMin(hits)
          IN <<SubSeq(s, 1, i - 1)>> \o Split(SubSeq(s, i + 1, Len(s)), seps)

\* str.replace(/x/g, '') for one character x
RECURSIVE Without(_, _)
Without(s, x) ==
  IF Len(s) = 0 THEN ""
  ELSE (IF SubSeq(s, 1, 1) = x THEN "" ELSE SubSeq(s, 1, 1)) \o Without(SubSeq(s, 2, Len(s)), x)

StartsWith(s, p) == Len(s) >= Len(p) /\ SubSeq(s, 1, Len(p)) = p

\* the value of a run of decimal digits
RECURSIVE Decimal(_)
Decimal(ds) ==
  IF Len(ds) = 0 THEN 0
  ELSE 10 * Decimal(SubSeq(ds, 1, Len(ds) - 1))
       + (CHOOSE n \in 0..9 : ToString(n) = ds[Len(ds)])

\* parseInt(val, 10): blanks, a sign, digits; NaN when there is no digit
parseInt(s) ==
  LET c == Chars(s)
      i == 1 + Run(c, Blank, 1)
      signed == i <= Len(c) /\ c[i] \in {"+", "-"}
      j == IF signed THEN i + 1 ELSE i
      n == Run(c, Digit, j)
  IN IF n = 0 THEN [nan |-> TRUE, n |-> 0]
     ELSE [nan |-> FALSE,
           n |-> (IF signed /\ c[i] = "-" THEN -1 ELSE 1) * Decimal(SubSeq(c, j, j + n - 1))]

\* x || 1 for the number parseInt returned
OrOne(p) == IF p.nan \/ p.n = 0 THEN 1 ELSE p.n

\* a property name that is an array index: such keys come first, in
\* ascending order, when the entries of an object are listed
IsIndex(k) ==
  /\ Len(k) > 0
  /\ \A i \in 1..Len(k) : SubSeq(k, i, i) \in Digit
  /\ Len(k) = 1 \/ SubSeq(k, 1, 1) # "0"

\* a JavaScript object as the sequence of its entries in key order: array
\* indices ascending, then the other keys as they were first set
ObjHas(o, k) == \E i \in 1..Len(o) : o[i].k = k
ObjGet(o, k) == o[CHOOSE i \in 1..Len(o) : o[i].k = k].v
ObjSet(o, k, v) ==
  IF ObjHas(o, k)
  THEN [i \in 1..Len(o) |-> IF o[i].k = k THEN [k |-> k, v |-> v] ELSE o[i]]
  ELSE IF IsIndex(k)
  THEN LET Smaller(e) == IsIndex(e.k) /\ Decimal(Chars(e.k)) < Decimal(Chars(k))
       IN SelectSeq(o, Smaller) \o <<[k |-> k, v |-> v]>> \o SelectSeq(o, LAMBDA e : ~Smaller(e))
  ELSE Append(o, [k |-> k, v |-> v])

\* String.prototype.toLowerCase and toUpperCase, character by character
LowerOf(ch) ==
  IF ch \in Upper THEN LowerSeq[CHOOSE i \in 1..Len(UpperSeq) : UpperSeq[i] = ch] ELSE ch
UpperOf(ch) ==
  IF ch \in Lower THEN UpperSeq[CHOOSE i \in 1..Len(LowerSeq) : LowerSeq[i] = ch] ELSE ch
RECURSIVE toLowerCase(_)
toLowerCase(s) ==
  IF Len(s) = 0 THEN "" ELSE LowerOf(SubSeq(s, 1, 1)) \o toLowerCase(SubSeq(s, 2, Len(s)))

EndsWith(s, p) == Len(s) >= Len(p) /\ SubSeq(s, Len(s) - Len(p) + 1, Len(s)) = p

\* the characters of the model's file names in code unit order
CodeOrder ==
  <<"-", ".">> \o [i \in 1..10 |-> ToString(i - 1)] \o UpperSeq \o <<"_">> \o LowerSeq
Code(ch) == CHOOSE i \in 1..Len(CodeOrder) : CodeOrder[i] = ch

\* a < b as Array.prototype.sort compares strings
RECURSIVE Before(_, _)
Before(a, b) ==
  IF Len(b) = 0 THEN FALSE
  ELSE IF Len(a) = 0 THEN TRUE
  ELSE LET x == Code(SubSeq(a, 1, 1))
           y == Code(SubSeq(b, 1, 1))
       IN IF x # y THEN x < y ELSE Before(SubSeq(a, 2, Len(a)), SubSeq(b, 2, Len(b)))

\* Array.prototype.sort of distinct strings
RECURSIVE Sort(_)
Sort(S) ==
  IF S = {} THEN <<>>
  ELSE LET m == CHOOSE x \in S : \A y \in S \ {x} : Before(x, y)
       IN <<m>> \o Sort(S \ {m})

(***************************************************************************)
(* parseSimpleYaml and loadACFromConfig.                                   *)
(***************************************************************************)
\* the values parseSimpleYaml stores: a string, an object or an array
StrVal(s) == [t |-> "str", s |-> s, e |-> <<>>, a |-> <<>>]
ObjVal(e) == [t |-> "obj", s |-> "", e |-> e, a |-> <<>>]
ArrVal(a) == [t |-> "arr", s |-> "", e |-> <<>>, a |-> a]

NoKeyValue == [ok |-> FALSE, key |-> "", val |-> ""]

\* (\w[\w-]*):\s*(.*) at position pos of a line (lines 108, 109)
KeyValue(line, pos) ==
  LET c == Chars(line)
      n == IF pos <= Len(c) /\ c[pos] \in WordChar
           THEN 1 + Run(c, WordChar \cup {"-"}, pos + 1) ELSE 0
      colon == pos + n
      v == colon + 1 + Run(c, Blank, colon + 1)
      m == RunNot(c, LineTerminator, v)
  IN IF n > 0 /\ colon <= Len(c) /\ c[colon] = ":"
     THEN [ok |-> TRUE, key |-> SubSeq(line, pos, colon - 1), val |-> SubSeq(line, v, v + m - 1)]
     ELSE NoKeyValue

\* /^(\w[\w-]*):\s*(.*)/ (line 108)
topMatch(line) == KeyValue(line, 1)

\* /^  (\w[\w-]*):\s*(.*)/ (line 109)
nestedMatch(line) == IF StartsWith(line, "  ") THEN KeyValue(line, 3) ELSE NoKeyValue

\* /^  - (.*)/ (line 110)
arrayMatch(line) ==
  IF StartsWith(line, "  - ")
  THEN [ok |-> TRUE, key |-> "",
        val |-> SubSeq(line, 5, 4 + RunNot(Chars(line), LineTerminator, 5))]
  ELSE NoKeyValue

\* /^\s*#/.test(line) || /^\s*$/.test(line) (line 106)
CommentOrBlank(line) ==
  LET c == Chars(line)
      i == 1 + Run(c, Blank, 1)
  IN i > Len(c) \/ c[i] = "#"

\* rawLine.replace(/\r$/, '') (line 105)
StripCR(rawLine) ==
  IF Len(rawLine) > 0 /\ SubSeq(rawLine, Len(rawLine), Len(rawLine)) = "\r"
  THEN SubSeq(rawLine, 1, Len(rawLine) - 1) ELSE rawLine

\* one turn of parseSimpleYaml's loop (lines 104-133)
YamlLine(st, rawLine) ==
  LET line == StripCR(rawLine)
      result == st.result
      currentSection == st.currentSection
      top == topMatch(line)
      nested == nestedMatch(line)
      arr == arrayMatch(line)
  IN IF CommentOrBlank(line) THEN st
     ELSE IF top.ok /\ ~StartsWith(line, " ")
     THEN [result |-> ObjSet(result, top.key,
                             IF Trim(top.val) # "" THEN StrVal(Trim(top.val)) ELSE ObjVal(<<>>)),
           currentSection |-> top.key]
     ELSE IF nested.ok /\ currentSection # NoArg /\ ObjGet(result, currentSection).t = "obj"
     THEN IF Trim(nested.val) # ""
          THEN [st EXCEPT !.result =
                  ObjSet(result, currentSection,
                         ObjVal(ObjSet(ObjGet(result, currentSection).e, nested.key,
                                       Trim(nested.val))))]
          ELSE st
     ELSE IF arr.ok /\ currentSection # NoArg
     THEN LET old == ObjGet(result, currentSection)
              items == IF old.t = "arr" THEN old.a ELSE <<>>
          IN [st EXCEPT !.result =
                ObjSet(result, currentSection, ArrVal(Append(items, Trim(arr.val))))]
     ELSE st

\* parseSimpleYaml (lines 96-135)
parseSimpleYaml(content) ==
  LET lines == Split(content, {"\n"})
      Done[i \in 0..Len(lines)] ==
        IF i = 0 THEN [result |-> <<>>, currentSection |-> NoArg]
        ELSE YamlLine(Done[i - 1], lines[i])
  IN Done[Len(lines)].result

\* Object.entries of a value parseSimpleYaml stored
Entries(v) ==
  IF v.t = "arr" THEN [i \in 1..Len(v.a) |-> [k |-> ToString(i - 1), v |-> v.a[i]]]
  ELSE v.e

\* config[key] && typeof config[key] === 'object' (lines 145, 152)
IsObject(config, key) == ObjHas(config, key) /\ ObjGet(config, key).t # "str"

\* x || y || null over the values of a configuration (line 158); an object
\* or an array is a truthy value that is no string
NameOf(v) == IF v.t = "str" THEN v.s ELSE "[object]"
ProjectNameOf(config) ==
  IF ObjHas(config, "project-name") THEN NameOf(ObjGet(config, "project-name"))
  ELSE IF ObjHas(config, "name") THEN NameOf(ObjGet(config, "name"))
  ELSE NoArg

\* what a loader returns when it returns null
NoData == [ok |-> FALSE, definitions |-> <<>>, minimums |-> <<>>, projectName |-> NoArg]

\* what a file of the report generator's file system holds: a text, the
\* tokens of a template, or the value of a JSON document
NoTree == [suites |-> <<>>]
TextFile(text) == [state |-> "ok", content |-> [text |-> text, tokens |-> <<>>, json |-> NoTree]]
TemplateFile(tokens) ==
  [state |-> "ok", content |-> [text |-> "", tokens |-> tokens, json |-> NoTree]]
JsonFile(json) == [state |-> "ok", content |-> [text |-> "", tokens |-> <<>>, json |-> json]]
NoFile == [state |-> "absent", content |-> [text |-> "", tokens |-> <<>>, json |-> NoTree]]
Unreadable == [NoFile EXCEPT !.state = "unreadable"]
Malformed == [NoFile EXCEPT !.state = "malformed"]

\* fs.existsSync and fs.readFileSync of the report generator
fileExists(p) == p \in DOMAIN disk /\ disk[p].state # "absent"
readable(p) == p \in DOMAIN disk /\ disk[p].state = "ok"

\* the two loops of loadACFromConfig (lines 145-156)
ConfigDefs(config) ==
  LET es == IF IsObject(config, "acceptance-criteria")
            THEN Entries(ObjGet(config, "acceptance-criteria")) ELSE <<>>
      D[i \in 0..Len(es)] ==
        IF i = 0 THEN <<>> ELSE ObjSet(D[i - 1], es[i].k, es[i].v)
  IN D[Len(es)]

ConfigMins(config) ==
  LET defs == ConfigDefs(config)
      ms == IF IsObject(config, "minimum-tests")
            THEN Entries(ObjGet(config, "minimum-tests")) ELSE <<>>
      M[i \in 0..(Len(defs) + Len(ms))] ==
        IF i = 0 THEN <<>>
        ELSE IF i <= Len(defs) THEN ObjSet(M[i - 1], defs[i].k, 1)
        ELSE ObjSet(M[i - 1], ms[i - Len(defs)].k, OrOne(parseInt(ms[i - Len(defs)].v)))
  IN M[Len(defs) + Len(ms)]

\* what loadACFromConfig makes of the parsed configuration (lines 142-163)
ConfigData(config) ==
  IF Len(ConfigDefs(config)) > 0
  THEN [ok |-> TRUE, definitions |-> ConfigDefs(config), minimums |-> ConfigMins(config),
        projectName |-> ProjectNameOf(config)]
  ELSE NoData

\* loadACFromConfig (lines 137-167); a read that throws is caught (line 164)
loadACFromConfig(configPath) ==
  IF ~fileExists(configPath) THEN NoData
  ELSE IF ~readable(configPath) THEN NoData
  ELSE ConfigData(parseSimpleYaml(disk[configPath].content.text))

(***************************************************************************)
(* loadACFromMarkdown, loadACFromTestResults, loadACDefinitions.           *)
(***************************************************************************)
NoAC == [ok |-> FALSE, id |-> "", desc |-> "", end |-> 0]

\* AC-\d+ at position pos of the characters c: the position after it, 0 when
\* there is none (lines 177, 203, 268, 356)
ACIdEnd(c, pos) ==
  IF pos + 2 <= Len(c) /\ c[pos] = "A" /\ c[pos + 1] = "C" /\ c[pos + 2] = "-"
     /\ Run(c, Digit, pos + 3) > 0
  THEN pos + 3 + Run(c, Digit, pos + 3) ELSE 0

\* (AC-\d+)[:\s]+(.+) at position pos of s (lines 177, 203).  The separator is
\* greedy and gives characters back until the dot finds one to match.
ACMatch(s, pos) ==
  LET c == Chars(s)
      idEnd == ACIdEnd(c, pos)
      sep == Run(c, Blank \cup {":"}, idEnd)
      ks == { k \in 1..sep : idEnd + k <= Len(c) /\ c[idEnd + k] \notin LineTerminator }
  IN IF idEnd = 0 \/ ks = {} THEN NoAC
     ELSE LET from == idEnd + SetMax(ks)
              n == RunNot(c, LineTerminator, from)
          IN [ok |-> TRUE, id |-> SubSeq(s, pos, idEnd - 1),
              desc |-> SubSeq(s, from, from + n - 1), end |-> from + n]

\* (?:^#+\s*|^[-*]\s*|^) at position p, with the m flag: the position after
\* the prefix, 0 when p is not the start of a line (line 177)
MdPrefixEnd(c, p) ==
  IF ~(p = 1 \/ c[p - 1] \in LineTerminator) THEN 0
  ELSE IF p <= Len(c) /\ c[p] = "#"
  THEN LET h == p + Run(c, {"#"}, p) IN h + Run(c, Blank, h)
  ELSE IF p <= Len(c) /\ c[p] \in {"-", "*"}
  THEN p + 1 + Run(c, Blank, p + 1)
  ELSE p

\* the exec loop of loadACFromMarkdown (lines 179-184): a later match of the
\* same id replaces the description
RECURSIVE MdScan(_, _, _)
MdScan(s, p, acc) ==
  IF p > Len(s) THEN acc
  ELSE LET q == MdPrefixEnd(Chars(s), p)
           m == IF q = 0 THEN NoAC ELSE ACMatch(s, q)
       IN IF m.ok
          THEN MdScan(s, m.end,
                      [defs |-> ObjSet(acc.defs, m.id, Without(Trim(m.desc), "*")),
                       mins |-> ObjSet(acc.mins, m.id, 1)])
          ELSE MdScan(s, p + 1, acc)

\* loadACFromMarkdown (lines 169-193)
loadACFromMarkdown(mdPath) ==
  IF ~fileExists(mdPath) THEN NoData
  ELSE IF ~readable(mdPath) THEN NoData
  ELSE LET found == MdScan(disk[mdPath].content.text, 1, [defs |-> <<>>, mins |-> <<>>])
       IN IF Len(found.defs) > 0
          THEN [ok |-> TRUE, definitions |-> found.defs, minimums |-> found.mins,
                projectName |-> NoArg]
          ELSE NoData

\* the specs of a results tree in the order walkSuites visits them: a
\* suite's own specs, then its nested suites (lines 199-216, 326-350)
RECURSIVE SpecsOf(_)
SpecsOf(suites) ==
  IF Len(suites) = 0 THEN <<>>
  ELSE [i \in 1..Len(Head(suites).specs) |->
          [spec |-> Head(suites).specs[i], file |-> Head(suites).file]]
       \o SpecsOf(Head(suites).suites) \o SpecsOf(Tail(suites))

\* !defs[acId]: the id is not a key, or its value is the empty string
Falsy(defs, k) == ~ObjHas(defs, k) \/ ObjGet(defs, k) = ""

\* loadACFromTestResults (lines 195-225): the first description of an id stays
loadACFromTestResults(res) ==
  LET specs == SpecsOf(res.suites)
      D[i \in 0..Len(specs)] ==
        IF i = 0 THEN [defs |-> <<>>, mins |-> <<>>]
        ELSE LET acMatch == ACMatch(specs[i].spec.title, 1)
             IN IF acMatch.ok /\ Falsy(D[i - 1].defs, acMatch.id)
                THEN [defs |-> ObjSet(D[i - 1].defs, acMatch.id, Trim(acMatch.desc)),
                      mins |-> ObjSet(D[i - 1].mins, acMatch.id, 1)]
                ELSE D[i - 1]
      found == D[Len(specs)]
  IN IF Len(found.defs) > 0
     THEN [ok |-> TRUE, definitions |-> found.defs, minimums |-> found.mins,
           projectName |-> NoArg]
     ELSE NoData

PROJECT_ROOT == "/proj"

\* path.isAbsolute
isAbsolute(p) == StartsWith(p, "/")

\* path.join of a directory and segments that need no normalisation
Join(dir, p) == dir \o "/" \o p

\* path.isAbsolute(p) ? p : path.join(PROJECT_ROOT, p) (lines 39, 62, 76, 230)
Resolved(p) == IF isAbsolute(p) THEN p ELSE Join(PROJECT_ROOT, p)

cliResults == getArg("--results")
cliTemplate == getArg("--template")
cliOutput == getArg("--output")
cliConfig == getArg("--config")

\* mdCandidates (lines 242-246)
mdCandidates ==
  << Join(PROJECT_ROOT, "docs/acceptance-criteria.md"),
     Join(PROJECT_ROOT, "docs/acceptance_criteria.md"),
     Join(PROJECT_ROOT, "acceptance-criteria.md") >>

\* the markdown loop of loadACDefinitions (lines 247-250): the data of the
\* first candidate that has definitions, and the candidates looked at
RECURSIVE FromMarkdown(_, _)
FromMarkdown(candidates, read) ==
  IF Len(candidates) = 0 THEN [data |-> NoData, read |-> read]
  ELSE LET fromMd == loadACFromMarkdown(Head(candidates))
       IN IF fromMd.ok THEN [data |-> fromMd, read |-> Append(read, Head(candidates))]
          ELSE FromMarkdown(Tail(candidates), Append(read, Head(candidates)))

\* a resolver that asks the markdown documents before the configuration in
\* the project root
FirstSourceMarkdownFirst(explicit, fromConfig, md, fromTests) ==
  LET read1 == IF cliConfig # NoArg THEN <<Resolved(cliConfig)>> ELSE <<>>
  IN IF explicit.ok THEN [data |-> explicit, read |-> read1, warnings |-> <<>>]
     ELSE IF md.data.ok THEN [data |-> md.data, read |-> read1 \o md.read, warnings |-> <<>>]
     ELSE IF fromConfig.ok
     THEN [data |-> fromConfig,
           read |-> read1 \o md.read \o <<Join(PROJECT_ROOT, "teamwerk-config.yml")>>,
           warnings |-> <<>>]
     ELSE [data |-> IF fromTests.ok THEN fromTests ELSE [NoData EXCEPT !.ok = TRUE],
           read |-> read1 \o md.read \o <<Join(PROJECT_ROOT, "teamwerk-config.yml")>>,
           warnings |-> <<>>]

\* the returns of loadACDefinitions (lines 232, 239, 249, 254, 258), given
\* what each source has: the data, the paths looked at in order, and the
\* warnings printed
FirstSource(explicit, fromConfig, md, fromTests) ==
  LET read1 == IF cliConfig # NoArg THEN <<Resolved(cliConfig)>> ELSE <<>>
      warn1 == IF cliConfig # NoArg
               THEN <<[t |-> "warn-config-without-ac", file |-> Resolved(cliConfig)]>>
               ELSE <<>>
      read2 == Append(read1, Join(PROJECT_ROOT, "teamwerk-config.yml"))
  IN IF explicit.ok THEN [data |-> explicit, read |-> read1, warnings |-> <<>>]
     ELSE IF fromConfig.ok THEN [data |-> fromConfig, read |-> read2, warnings |-> warn1]
     ELSE IF md.data.ok THEN [data |-> md.data, read |-> read2 \o md.read, warnings |-> warn1]
     ELSE IF fromTests.ok
     THEN [data |-> fromTests, read |-> read2 \o md.read, warnings |-> warn1]
     ELSE [data |-> [NoData EXCEPT !.ok = TRUE], read |-> read2 \o md.read,
           warnings |-> Append(warn1, [t |-> "warn-no-ac-definitions"])]

\* loadACDefinitions (lines 227-259)
loadACDefinitions(res) ==
  FirstSource(IF cliConfig # NoArg THEN loadACFromConfig(Resolved(cliConfig)) ELSE NoData,
              loadACFromConfig(Join(PROJECT_ROOT, "teamwerk-config.yml")),
              FromMarkdown(mdCandidates, <<>>),
              loadACFromTestResults(res))

(***************************************************************************)
(* Utility functions and the ingestion of the results (lines 263-359).     *)
(***************************************************************************)
\* the escape character U+001B, written as a form feed (a string of this
\* language cannot hold U+001B; the model's texts hold no form feed)
ESC == "\f"

\* stripAnsi (lines 263-265): removes every ESC [ digits m
RECURSIVE stripAnsi(_)
stripAnsi(str) ==
  IF Len(str) = 0 THEN ""
  ELSE LET c == Chars(str)
           d == Run(c, Digit, 3)
       IN IF Len(c) >= 4 /\ c[1] = ESC /\ c[2] = "[" /\ d > 0
             /\ 3 + d <= Len(c) /\ c[3 + d] = "m"
          THEN stripAnsi(SubSeq(str, 4 + d, Len(str)))
          ELSE SubSeq(str, 1, 1) \o stripAnsi(SubSeq(str, 2, Len(str)))

\* extractAC (lines 267-270); NoArg is null
extractAC(title) ==
  LET e == ACIdEnd(Chars(title), 1)
  IN IF e = 0 THEN NoArg ELSE SubSeq(title, 1, e - 1)

\* escapeHtml (lines 283-285)
RECURSIVE escapeHtml(_)
escapeHtml(str) ==
  IF Len(str) = 0 THEN ""
  ELSE LET ch == SubSeq(str, 1, 1)
       IN (CASE ch = "&" -> "&amp;"
             [] ch = "<" -> "&lt;"
             [] ch = ">" -> "&gt;"
             [] ch = "\"" -> "&quot;"
             [] OTHER -> ch) \o escapeHtml(SubSeq(str, 2, Len(str)))

\* formatDuration (lines 287-290); the model's durations are multiples of
\* 20 ms, for which toFixed(1) rounds to the nearest tenth of a second
formatDuration(ms) ==
  IF ms < 1000 THEN ToString(ms) \o "ms"
  ELSE LET tenths == (ms + 50) \div 100
       IN ToString(tenths \div 10) \o "." \o ToString(tenths % 10) \o "s"

\* (result.stdout || []).map(s => stripAnsi(s.text || '')).join('') (line 334)
RECURSIVE JoinStdout(_)
JoinStdout(chunks) ==
  IF Len(chunks) = 0 THEN ""
  ELSE stripAnsi(Head(chunks).text) \o JoinStdout(Tail(chunks))

\* a walk that takes the last result of a spec's first test
TestsOfSpecLastResult(s) ==
  IF Len(s.spec.tests) = 0 THEN <<>>
  ELSE LET test == s.spec.tests[1]
       IN IF Len(test.results) = 0 THEN <<>>
          ELSE LET result == test.results[Len(test.results)]
               IN << [title |-> s.spec.title,
                      ac |-> extractAC(s.spec.title),
                      file |-> s.file,
                      line |-> s.spec.line,
                      status |-> result.status,
                      duration |-> result.duration,
                      stdout |-> JoinStdout(result.stdout),
                      errors |-> result.errors,
                      project |-> test.projectName] >>

\* the body of walkSuites for one spec (lines 330-345): no record for a spec
\* without tests or whose first test has no results
TestsOfSpec(s) ==
  IF Len(s.spec.tests) = 0 THEN <<>>
  ELSE LET test == s.spec.tests[1]
       IN IF Len(test.results) = 0 THEN <<>>
          ELSE LET result == test.results[1]
               IN << [title |-> s.spec.title,
                      ac |-> extractAC(s.spec.title),
                      file |-> s.file,
                      line |-> s.spec.line,
                      status |-> result.status,
                      duration |-> result.duration,
                      stdout |-> JoinStdout(result.stdout),
                      errors |-> result.errors,
                      project |-> test.projectName] >>

\* walkSuites of main (lines 324-351)
walkSuites(suites) ==
  LET specs == SpecsOf(suites)
  IN Flatten([i \in 1..Len(specs) |-> TestsOfSpec(specs[i])])

\* the longest description a discovered AC gets (line 356)
DescMax == 60

\* String.prototype.substring(0, n)
Substring0(s, n) == IF Len(s) <= n THEN s ELSE SubSeq(s, 1, n)

\* t.title.replace(/^AC-\d+[:\s]+/, '') (line 356)
WithoutACPrefix(title) ==
  LET c == Chars(title)
      e == ACIdEnd(c, 1)
      sep == IF e = 0 THEN 0 ELSE Run(c, Blank \cup {":"}, e)
  IN IF sep = 0 THEN title ELSE SubSeq(title, e + sep, Len(title))

\* a discovery that adds nothing to the catalog
DiscoverNothing(tests, n, acc) == acc

\* the discovery of further ACs (lines 353-359), over the first n tests
RECURSIVE Discover(_, _, _)
Discover(tests, n, acc) ==
  IF n = 0 THEN acc
  ELSE LET before == Discover(tests, n - 1, acc)
           t == tests[n]
       IN IF t.ac # NoArg /\ Falsy(before.defs, t.ac)
          THEN [defs |-> ObjSet(before.defs, t.ac, Substring0(WithoutACPrefix(t.title), DescMax)),
                mins |-> ObjSet(before.mins, t.ac, 1)]
          ELSE before

(***************************************************************************)
(* Evidence files, the traceability matrix, the detail sections and the    *)
(* coverage gaps (lines 292-305, 361-526).                                 *)
(***************************************************************************)
\* the candidates of findResultsFile (lines 45-51)
ResultsCandidates ==
  << Join(PROJECT_ROOT, "tests/report/test-results.json"),
     Join(PROJECT_ROOT, "test-results/results.json"),
     Join(PROJECT_ROOT, "test-results.json"),
     Join(PROJECT_ROOT, "playwright-report/test-results.json"),
     Join(PROJECT_ROOT, "reports/test-results.json") >>

\* the template bundled with the script (line 68)
BundledTemplate == "/plugin/scripts/report-template.html"

\* findOutputPath (lines 74-79)
findOutputPath ==
  IF cliOutput # NoArg THEN Resolved(cliOutput)
  ELSE Join(PROJECT_ROOT, "tests/report/evidence-report.html")

\* the candidates of findEvidenceDir (lines 82-87)
EvidenceCandidates ==
  << Join(PROJECT_ROOT, "tests/evidence"),
     Join(PROJECT_ROOT, "test-evidence"),
     Join(PROJECT_ROOT, "evidence"),
     Join(PROJECT_ROOT, "tests/screenshots") >>

\* findEvidenceDir (lines 81-92); NoArg is null
findEvidenceDir ==
  LET found == SelectSeq(EvidenceCandidates, LAMBDA c : c \in dirs)
  IN IF Len(found) = 0 THEN NoArg ELSE found[1]

\* the names an evidence directory of the model can hold
EvidenceNames ==
  { "ac1-empty-title.png", "AC2_tasks.JPG", "ac1-b.webp", "notes.txt", "misc.gif",
    "ac1-item-created.png", "ac9-other.png" }

\* /\.(png|jpg|jpeg|gif|webp)$/i.test(f) (line 375)
IsImage(f) ==
  \E ext \in {".png", ".jpg", ".jpeg", ".gif", ".webp"} : EndsWith(toLowerCase(f), ext)

\* fs.readdirSync(EVIDENCE_DIR).filter(...).sort() (lines 374-376)
EvidenceFiles(dir) ==
  IF dir = NoArg THEN <<>>
  ELSE Sort({ f \in EvidenceNames : fileExists(Join(dir, f)) /\ IsImage(f) })

\* an assignment that files an image without ac<number> prefix under AC-1
getScreenshotACOrFirst(filename) ==
  LET c == Chars(filename)
      d == Run(c, Digit, 3)
  IN IF Len(c) >= 3 /\ LowerOf(c[1]) = "a" /\ LowerOf(c[2]) = "c" /\ d > 0
     THEN "AC-" \o SubSeq(filename, 3, 2 + d) ELSE "AC-1"

\* getScreenshotAC (lines 292-296); NoArg is null
getScreenshotAC(filename) ==
  LET c == Chars(filename)
      d == Run(c, Digit, 3)
  IN IF Len(c) >= 3 /\ LowerOf(c[1]) = "a" /\ LowerOf(c[2]) = "c" /\ d > 0
     THEN "AC-" \o SubSeq(filename, 3, 2 + d) ELSE NoArg

\* a word left as it is in the file name
CapitalizeNot(w) == w

\* w.charAt(0).toUpperCase() + w.slice(1) (line 304)
Capitalize(w) == IF Len(w) = 0 THEN "" ELSE UpperOf(SubSeq(w, 1, 1)) \o SubSeq(w, 2, Len(w))

\* Array.prototype.join(' ')
RECURSIVE JoinWords(_)
JoinWords(ws) ==
  IF Len(ws) = 0 THEN ""
  ELSE IF Len(ws) = 1 THEN ws[1]
  ELSE ws[1] \o " " \o JoinWords(Tail(ws))

\* getScreenshotDescription (lines 298-305)
getScreenshotDescription(filename) ==
  LET c == Chars(filename)
      dots == { i \in 1..(Len(c) - 1) :
                  c[i] = "." /\ \A j \in (i + 1)..Len(c) : c[j] \in WordChar }
      withoutExt == IF dots = {} THEN filename ELSE SubSeq(filename, 1, SetMin(dots) - 1)
      w == Chars(withoutExt)
      d == Run(w, Digit, 3)
      isAC == Len(w) >= 3 /\ LowerOf(w[1]) = "a" /\ LowerOf(w[2]) = "c" /\ d > 0
      skip == IF ~isAC THEN 0
              ELSE IF 3 + d <= Len(w) /\ w[3 + d] = "-" THEN 3 + d ELSE 2 + d
      withoutAC == SubSeq(withoutExt, skip + 1, Len(withoutExt))
      words == Split(withoutAC, {"-", "_"})
  IN IF withoutAC = "" THEN filename
     ELSE JoinWords([i \in 1..Len(words) |-> Capitalize(words[i])])

\* path.extname(filePath).slice(1), for the model's file names (line 275)
ExtOf(f) ==
  LET c == Chars(f)
      dots == { i \in 2..Len(c) : c[i] = "." }
  IN IF dots = {} THEN "" ELSE SubSeq(f, SetMax(dots) + 1, Len(f))

\* readImageAsBase64 (lines 272-281); a read that throws gives null
readImageAsBase64(filePath, name) ==
  IF ~readable(filePath) THEN [ok |-> FALSE, mime |-> "", data |-> ""]
  ELSE [ok |-> TRUE, mime |-> IF ExtOf(name) = "jpg" THEN "jpeg" ELSE ExtOf(name),
        data |-> disk[filePath].content.text]

Passed(tests) == SelectSeq(tests, LAMBDA t : t.status = "passed")
\* a count of failures that takes the status failed only
NotPassedFailedOnly(tests) == SelectSeq(tests, LAMBDA t : t.status = "failed")
NotPassed(tests) == SelectSeq(tests, LAMBDA t : t.status # "passed")

RECURSIVE SumDuration(_)
SumDuration(tests) ==
  IF Len(tests) = 0 THEN 0 ELSE Head(tests).duration + SumDuration(Tail(tests))

\* a grouping that puts the tests without an AC id into every group
acGroupWithUntagged(tests, ac) == SelectSeq(tests, LAMBDA t : t.ac = ac \/ t.ac = NoArg)

\* acGroups[ac] (lines 368-371)
acGroup(tests, ac) == SelectSeq(tests, LAMBDA t : t.ac = ac)

\* AC_MINIMUMS[ac] || 1 (lines 393, 499)
MinimumOf(mins, ac) == IF ObjHas(mins, ac) /\ ObjGet(mins, ac) # 0 THEN ObjGet(mins, ac) ELSE 1

\* a status that does not look at the minimum
MatrixStatusNoMinimum(total, failCount, min) ==
  IF failCount = 0 /\ total > 0 THEN "PASS"
  ELSE IF failCount > 0 THEN "FAIL" ELSE "BELOW MIN"

\* the status of a matrix row (lines 394-398)
MatrixStatus(total, failCount, min) ==
  LET meetsMinimum == total >= min
      allPass == failCount = 0 /\ total > 0
  IN IF allPass /\ meetsMinimum THEN "PASS"
     ELSE IF failCount > 0 THEN "FAIL" ELSE "BELOW MIN"

\* the rows of the traceability matrix (lines 387-408)
acRows(defs, mins, tests) ==
  [i \in 1..Len(defs) |->
     LET group == acGroup(tests, defs[i].k)
         failCount == Len(NotPassed(group))
         min == MinimumOf(mins, defs[i].k)
     IN [ac |-> defs[i].k, desc |-> escapeHtml(defs[i].v), total |-> Len(group), min |-> min,
         passCount |-> Len(Passed(group)), failCount |-> failCount,
         statusBadge |-> MatrixStatus(Len(group), failCount, min)]]

\* t.title.replace(/^AC-\d+:\s*/, '') (line 454)
CardName(title) ==
  LET c == Chars(title)
      e == ACIdEnd(c, 1)
  IN IF e # 0 /\ e <= Len(c) /\ c[e] = ":"
     THEN SubSeq(title, e + 1 + Run(c, Blank, e + 1), Len(title)) ELSE title

\* the card of one test (lines 443-471); the model's errors have a message
testCard(t) ==
  [badge |-> IF t.status = "passed" THEN "PASS" ELSE "FAIL",
   typeBadge |-> IF t.project = "api" THEN "API" ELSE "E2E",
   name |-> escapeHtml(CardName(t.title)),
   meta |-> formatDuration(t.duration) \o " " \o escapeHtml(t.file) \o ":" \o ToString(t.line),
   log |-> escapeHtml(Trim(t.stdout)),
   errors |-> [i \in 1..Len(t.errors) |-> escapeHtml(stripAnsi(t.errors[i].message))]]

\* the screenshots of a detail section (lines 474-489)
screenshotGrid(dir, shots) ==
  LET Item(f) ==
        LET base64 == readImageAsBase64(Join(dir, f), f)
        IN IF base64.ok
           THEN <<[src |-> base64, alt |-> escapeHtml(getScreenshotDescription(f))]>>
           ELSE <<>>
  IN Flatten([i \in 1..Len(shots) |-> Item(shots[i])])

\* one detail section (lines 416-491)
acSection(ac, desc, group, dir, shots) ==
  [ac |-> ac, desc |-> escapeHtml(desc),
   statusBadge |-> IF Len(NotPassed(group)) = 0 THEN "PASS" ELSE "FAIL",
   tests |-> Len(group),
   apiCount |-> Len(SelectSeq(group, LAMBDA t : t.project = "api")),
   e2eCount |-> Len(SelectSeq(group, LAMBDA t : t.project # "api")),
   duration |-> formatDuration(SumDuration(group)),
   screenshots |-> Len(shots),
   cards |-> [i \in 1..Len(group) |-> testCard(group[i])],
   grid |-> screenshotGrid(dir, shots)]

\* the detail sections: one for every AC that has tests (lines 411-492)
acDetailSections(defs, tests, dir, evidenceFiles) ==
  LET Section(d) ==
        LET group == acGroup(tests, d.k)
            shots == SelectSeq(evidenceFiles, LAMBDA f : getScreenshotAC(f) = d.k)
        IN IF Len(group) = 0 THEN <<>> ELSE <<acSection(d.k, d.v, group, dir, shots)>>
  IN Flatten([i \in 1..Len(defs) |-> Section(defs[i])])

\* the coverage gaps (lines 495-506)
gaps(defs, mins, tests) ==
  LET Gap(d) ==
        LET total == Len(acGroup(tests, d.k))
            min == MinimumOf(mins, d.k)
        IN IF total < min
           THEN <<[ac |-> d.k, desc |-> escapeHtml(d.v), total |-> total, min |-> min]>>
           ELSE <<>>
  IN Flatten([i \in 1..Len(defs) |-> Gap(defs[i])])

\* the review summary (lines 512-526)
reviewSummary(defs, tests, hasGaps) ==
  LET acsCovered == Len(SelectSeq(defs, LAMBDA d : Len(acGroup(tests, d.k)) > 0))
  IN [naming |-> IF Len(tests) > 0 THEN "PASS" ELSE "N/A",
      covered |-> IF acsCovered = Len(defs) THEN "PASS" ELSE "GAPS",
      minimum |-> IF ~hasGaps THEN "PASS" ELSE "GAPS",
      acsCovered |-> acsCovered, totalACs |-> Len(defs),
      passed |-> Len(Passed(tests)), totalTests |-> Len(tests)]

(***************************************************************************)
(* main of the report generator (lines 309-552), step by step.             *)
(***************************************************************************)
\* the candidates of findResultsFile that exist (lines 52-54)
FoundResults == SelectSeq(ResultsCandidates, LAMBDA c : fileExists(c))

\* a search that falls back to the conventional places when the file named
\* by --results does not exist
findResultsFileFallback ==
  IF cliResults # NoArg /\ fileExists(Resolved(cliResults)) THEN Resolved(cliResults)
  ELSE IF Len(FoundResults) = 0 THEN NoArg ELSE FoundResults[1]

\* findResultsFile (lines 37-58); NoArg stands for process.exit(1)
findResultsFile ==
  IF cliResults # NoArg
  THEN IF fileExists(Resolved(cliResults)) THEN Resolved(cliResults) ELSE NoArg
  ELSE IF Len(FoundResults) = 0 THEN NoArg ELSE FoundResults[1]

\* findTemplatePath (lines 60-72); NoArg stands for process.exit(1)
findTemplatePath ==
  IF cliTemplate # NoArg
  THEN IF fileExists(Resolved(cliTemplate)) THEN Resolved(cliTemplate) ELSE NoArg
  ELSE IF fileExists(BundledTemplate) THEN BundledTemplate ELSE NoArg

\* path.basename(PROJECT_ROOT) (line 322)
RootName == "proj"

\* findResultsFile, findTemplatePath, and the two reads (lines 310-316): a
\* missing input ends the run with status 1; a file that cannot be read or
\* is no JSON throws, and nothing catches it
RepLocate ==
  /\ pc = "start"
  /\ UNCHANGED <<args, dirs, disk, files, scanned, allViolations, stdout>>
  /\ UNCHANGED <<AC_DEFINITIONS, AC_MINIMUMS, projectName, fsReads, allTests, report, output>>
  /\ LET RESULTS_PATH == findResultsFile
         TEMPLATE_PATH == findTemplatePath
         resultsMissing == RESULTS_PATH = NoArg
         templateMissing == TEMPLATE_PATH = NoArg
     IN IF resultsMissing
        THEN /\ stderr' = IF cliResults # NoArg
                          THEN <<[t |-> "results-not-found", file |-> Resolved(cliResults)]>>
                          ELSE <<[t |-> "no-results-found"], [t |-> "searched"]>>
             /\ exitCode' = 1
             /\ pc' = "exited"
             /\ UNCHANGED <<results, template>>
        ELSE IF templateMissing
        THEN /\ stderr' = IF cliTemplate # NoArg
                          THEN <<[t |-> "template-not-found", file |-> Resolved(cliTemplate)]>>
                          ELSE <<[t |-> "no-template-found"]>>
             /\ exitCode' = 1
             /\ pc' = "exited"
             /\ UNCHANGED <<results, template>>
        ELSE IF ~readable(RESULTS_PATH) \/ ~readable(TEMPLATE_PATH)
        THEN /\ stderr' = <<[t |-> "uncaught-exception",
                             file |-> IF ~readable(RESULTS_PATH) THEN RESULTS_PATH
                                      ELSE TEMPLATE_PATH]>>
             /\ exitCode' = 1
             /\ pc' = "crashed"
             /\ UNCHANGED <<results, template>>
        ELSE /\ results' = disk[RESULTS_PATH].content.json
             /\ template' = disk[TEMPLATE_PATH].content.tokens
             /\ pc' = "located"
             /\ UNCHANGED <<stderr, exitCode>>

\* loadACDefinitions and what main keeps of it (lines 319-322)
RepLoadAC ==
  /\ pc = "located"
  /\ UNCHANGED <<args, dirs, disk, files, scanned, allViolations, stdout, exitCode>>
  /\ UNCHANGED <<results, template, allTests, report, output>>
  /\ \E acData \in {loadACDefinitions(results)} :
        /\ AC_DEFINITIONS' = acData.data.definitions
        /\ AC_MINIMUMS' = acData.data.minimums
        /\ projectName' = IF acData.data.projectName # NoArg THEN acData.data.projectName
                          ELSE RootName
        /\ fsReads' = acData.read
        /\ stderr' = stderr \o acData.warnings
  /\ pc' = "loaded"

\* walkSuites and the discovery of further ACs (lines 324-359)
RepIngest ==
  /\ pc = "loaded"
  /\ UNCHANGED <<args, dirs, disk, files, scanned, allViolations, stdout, stderr, exitCode>>
  /\ UNCHANGED <<results, template, projectName, fsReads, report, output>>
  /\ allTests' = walkSuites(results.suites)
  /\ \E found \in {Discover(allTests', Len(allTests'),
                             [defs |-> AC_DEFINITIONS, mins |-> AC_MINIMUMS])} :
        /\ AC_DEFINITIONS' = found.defs
        /\ AC_MINIMUMS' = found.mins
  /\ pc' = "ingested"

\* the statistics and the parts of the report (lines 361-526)
RepCompile ==
  /\ pc = "ingested"
  /\ UNCHANGED <<args, dirs, disk, files, scanned, allViolations, stdout, stderr, exitCode>>
  /\ UNCHANGED <<results, template, AC_DEFINITIONS, AC_MINIMUMS, projectName, fsReads,
                 allTests, output>>
  /\ \E EVIDENCE_DIR \in {findEvidenceDir},
        gapList \in {gaps(AC_DEFINITIONS, AC_MINIMUMS, allTests)} :
      \E evidenceFiles \in {EvidenceFiles(EVIDENCE_DIR)} :
        report' =
          [totalTests |-> Len(allTests),
           passed |-> Len(Passed(allTests)),
           failed |-> Len(NotPassed(allTests)),
           totalDuration |-> SumDuration(allTests),
           evidenceFiles |-> evidenceFiles,
           acRows |-> acRows(AC_DEFINITIONS, AC_MINIMUMS, allTests),
           acDetailSections |->
             acDetailSections(AC_DEFINITIONS, allTests, EVIDENCE_DIR, evidenceFiles),
           gaps |-> gapList,
           hasGaps |-> Len(gapList) > 0,
           reviewSummary |-> reviewSummary(AC_DEFINITIONS, allTests, Len(gapList) > 0)]
  /\ pc' = "compiled"

\* html.replace(/\{\{NAME\}\}/g, value): every occurrence (lines 533-538)
ReplaceAll(html, token, value) ==
  [i \in 1..Len(html) |->
     IF html[i].t = "template" /\ html[i].v = token THEN value ELSE html[i]]

\* html.replace('<!-- {{NAME}} -->', value): the first occurrence (lines
\* 539-543); the model's replacement texts hold no $ pattern
ReplaceFirst(html, token, value) ==
  LET hits == { i \in 1..Len(html) : html[i].t = "template" /\ html[i].v = token }
  IN IF hits = {} THEN html ELSE [html EXCEPT ![SetMin(hits)] = value]

\* what new Date().toISOString() may give
Clock == {"2026-01-02T03:04:05.678Z"}

\* str.replace('T', ' '): the first occurrence
ReplaceT(s) ==
  LET c == Chars(s)
      hits == { i \in 1..Len(c) : c[i] = "T" }
  IN IF hits = {} THEN s
     ELSE SubSeq(s, 1, SetMin(hits) - 1) \o " " \o SubSeq(s, SetMin(hits) + 1, Len(s))

\* line 529
Timestamp(now) == Split(ReplaceT(now), {"."})[1] \o " UTC"

Filled(name, v) == [t |-> name, v |-> v]

\* the template with its placeholders replaced (lines 532-543)
Populate(now) ==
  LET h0 == [i \in 1..Len(template) |-> [t |-> "template", v |-> template[i]]]
      h1 == ReplaceAll(h0, "{{PROJECT_NAME}}", Filled("text", escapeHtml(projectName)))
      h2 == ReplaceAll(h1, "{{TIMESTAMP}}", Filled("text", Timestamp(now)))
      h3 == ReplaceAll(h2, "{{DURATION}}", Filled("text", formatDuration(report.totalDuration)))
      h4 == ReplaceAll(h3, "{{TOTAL}}", Filled("text", ToString(report.totalTests)))
      h5 == ReplaceAll(h4, "{{PASSED}}", Filled("text", ToString(report.passed)))
      h6 == ReplaceAll(h5, "{{FAILED}}", Filled("text", ToString(report.failed)))
      h7 == ReplaceFirst(h6, "<!-- {{AC_ROWS}} -->", Filled("acRows", report.acRows))
      h8 == ReplaceFirst(h7, "<!-- {{AC_DETAIL_SECTIONS}} -->",
                         Filled("acDetailSections", report.acDetailSections))
      h9 == ReplaceFirst(h8, "<!-- {{SECURITY_ROWS}} -->", Filled("text", ""))
      h10 == ReplaceFirst(h9, "<!-- {{GAPS}} -->", Filled("gaps", report.gaps))
  IN ReplaceFirst(h10, "<!-- {{REVIEW_SUMMARY}} -->",
                  Filled("reviewSummary", report.reviewSummary))

\* the template is populated and the report written (lines 528-552);
\* escapeHtml of a project name that is no string throws
RepWrite ==
  /\ pc = "compiled"
  /\ UNCHANGED <<args, dirs, disk, files, scanned, allViolations>>
  /\ UNCHANGED <<results, template, AC_DEFINITIONS, AC_MINIMUMS, projectName, fsReads,
                 allTests, report>>
  /\ IF projectName = "[object]"
     THEN /\ stderr' = Append(stderr, [t |-> "uncaught-exception", file |-> ""])
          /\ exitCode' = 1
          /\ pc' = "crashed"
          /\ UNCHANGED <<stdout, output>>
     ELSE \E now \in Clock :
            /\ output' = Append(output, [path |-> findOutputPath, html |-> Populate(now)])
            /\ stdout' = stdout \o
                 << [t |-> "generated", path |-> findOutputPath],
                    [t |-> "totals", total |-> report.totalTests, passed |-> report.passed,
                     failed |-> report.failed,
                     duration |-> formatDuration(report.totalDuration)],
                    [t |-> "screenshots", n |-> Len(report.evidenceFiles)],
                    [t |-> "covered", n |-> report.reviewSummary.acsCovered,
                     of |-> report.reviewSummary.totalACs] >>
            /\ exitCode' = 0
            /\ pc' = "exited"
            /\ UNCHANGED stderr

RepNext == RepLocate \/ RepLoadAC \/ RepIngest \/ RepCompile \/ RepWrite

(***************************************************************************)
(* The inputs of the report generator.                                     *)
(***************************************************************************)
Result(status, duration, out, errors) ==
  [status |-> status, duration |-> duration, stdout |-> out, errors |-> errors]

\* the specs a results file of the model is made of
specPassed ==
  [title |-> "AC-1: logs in", line |-> 10,
   tests |-> <<[projectName |-> "api", results |-> <<Result("passed", 120, <<>>, <<>>)>>]>>]
specFailed ==
  [title |-> "AC-1: rejects <bad> password", line |-> 20,
   tests |-> <<[projectName |-> "chromium",
                results |-> <<Result("failed", 800,
                                     <<[text |-> ESC \o "[31mboom" \o ESC \o "[0m\n"]>>,
                                     <<[message |-> "expected 401"]>>)>>]>>]
specSkipped ==
  [title |-> "AC-2 lists tasks", line |-> 30,
   tests |-> <<[projectName |-> "chromium", results |-> <<Result("skipped", 0, <<>>, <<>>)>>]>>]
specUntagged ==
  [title |-> "login page renders", line |-> 40,
   tests |-> <<[projectName |-> "chromium",
                results |-> <<Result("passed", 300, <<[text |-> "ok\n"]>>, <<>>)>>]>>]
specNoResults ==
  [title |-> "AC-3: exports", line |-> 50,
   tests |-> <<[projectName |-> "api", results |-> <<>>]>>]

specCreates ==
  [title |-> "AC-1: Creates item", line |-> 5,
   tests |-> <<[projectName |-> "chromium", results |-> <<Result("passed", 120, <<>>, <<>>)>>]>>]

specDotOne ==
  [title |-> "AC-1.1: adds item", line |-> 6,
   tests |-> <<[projectName |-> "api", results |-> <<Result("passed", 50, <<>>, <<>>)>>]>>]
specDotTwo ==
  [title |-> "AC-1.2: removes item", line |-> 7,
   tests |-> <<[projectName |-> "api", results |-> <<Result("failed", 60, <<>>, <<>>)>>]>>]

TestShapes == {specPassed, specFailed, specSkipped, specUntagged, specNoResults}

\* a results tree: the first spec in a file's suite, the others in a suite
\* nested in it
ResultsOf(specs) ==
  [suites |->
     IF Len(specs) = 0 THEN <<>>
     ELSE << [file |-> "tests/a.spec.ts", specs |-> <<Head(specs)>>,
              suites |-> IF Len(specs) = 1 THEN <<>>
                         ELSE << [file |-> "tests/b.spec.ts", specs |-> Tail(specs),
                                  suites |-> <<>>] >>] >>]

ResultsTrees ==
  { ResultsOf(specs) : specs \in UNION { [1..n -> TestShapes] : n \in 0..MaxSpecs } }

\* configuration files
cfgFull ==
  "project-name: Demo\nacceptance-criteria:\n  AC-1: Config login\n  AC-2: Config tasks\n"
  \o "minimum-tests:\n  AC-1: 3\n  AC-2: two\n"
cfgCustom == "# custom\r\nacceptance-criteria:\r\n  AC-1: Custom login\r\n"
cfgNoAC == "name: Demo\nminimum-tests:\n  AC-1: 2\n"
cfgMalformed == ": :\n\t- x\n  AC-1: Stray login\nacceptance-criteria: none\n"
\* a configuration with a key that is no AC id, a negative and a zero minimum
cfgLoose ==
  "acceptance-criteria:\n  AC-1: Config login\n  AC-2: Config tasks\n  login: Sign in\n"
  \o "minimum-tests:\n  AC-1: -2\n  AC-2: 0\n"
\* a configuration whose project name is left empty
cfgBlankName == "project-name:\nacceptance-criteria:\n  AC-1: Config login\n"

\* markdown documents
mdDoc == "# Acceptance criteria\n\n## AC-1: Markdown login\n- AC-3: **Markdown** export\n"
mdNoAC == "# Notes\nSee AC-1 later\n"
mdSecond == "* AC-1: Second login\n"
\* a document in the layout of the acceptance-criteria template (AC-X.Y ids)
mdDotted == "# Acceptance Criteria\n\n## AC-1.1: Adds item\n## AC-1.2: Removes item\n"
mdThird == "AC-2: Third tasks\nAC-2: Third tasks again\n"

\* templates
templateFull ==
  << "<h1>", "{{PROJECT_NAME}}", "</h1>", "{{TIMESTAMP}}", "{{DURATION}}", "{{TOTAL}}",
     "{{PASSED}}", "{{FAILED}}", "<!-- {{AC_ROWS}} -->", "<!-- {{AC_DETAIL_SECTIONS}} -->",
     "<!-- {{SECURITY_ROWS}} -->", "<!-- {{GAPS}} -->", "<!-- {{REVIEW_SUMMARY}} -->" >>
templateOwn == <<"{{TOTAL}}", "/", "{{TOTAL}}", "<!-- {{AC_ROWS}} -->", "<!-- {{AC_ROWS}} -->">>

ConfigPath == Join(PROJECT_ROOT, "teamwerk-config.yml")
CustomPath == Join(PROJECT_ROOT, "custom.yml")

\* every path the model's file systems can hold
RepPaths ==
  Range(ResultsCandidates) \cup Range(mdCandidates)
  \cup { Join(PROJECT_ROOT, "r.json"), BundledTemplate, Join(PROJECT_ROOT, "t.html"),
         ConfigPath, CustomPath }
  \cup { Join(d, f) : d \in Range(EvidenceCandidates), f \in EvidenceNames }

\* a file system that holds the files of the function fs and nothing else
DiskOf(fs) == [p \in RepPaths |-> IF p \in DOMAIN fs THEN fs[p] ELSE NoFile]

Empty == [p \in {} |-> NoFile]

\* where the results file is, and in what state
ResultsLayouts ==
  LET tree == ResultsOf(<<specPassed, specFailed>>)
      other == ResultsOf(<<specUntagged>>)
  IN { Empty,
       ResultsCandidates[1] :> JsonFile(tree),
       (ResultsCandidates[3] :> JsonFile(tree)) @@ (ResultsCandidates[5] :> JsonFile(other)),
       (ResultsCandidates[2] :> Malformed),
       (ResultsCandidates[4] :> Unreadable),
       (Join(PROJECT_ROOT, "r.json") :> JsonFile(other)) @@ (ResultsCandidates[1] :> JsonFile(tree)) }

TemplateLayouts ==
  { Empty,
    BundledTemplate :> TemplateFile(templateFull),
    (BundledTemplate :> TemplateFile(templateFull)) @@ (Join(PROJECT_ROOT, "t.html") :> TemplateFile(templateOwn)),
    (BundledTemplate :> TemplateFile(templateFull)) @@ (Join(PROJECT_ROOT, "t.html") :> Unreadable) }

\* evidence directories and their files
EvidenceLayouts ==
  LET dir1 == EvidenceCandidates[1]
      dir4 == EvidenceCandidates[4]
  IN { [dirs |-> {}, fs |-> Empty],
       [dirs |-> {dir1, dir4},
        fs |-> (Join(dir1, "ac1-empty-title.png") :> TextFile("<png>"))
               @@ (Join(dir1, "AC2_tasks.JPG") :> TextFile("<jpg>"))
               @@ (Join(dir1, "notes.txt") :> TextFile("notes"))
               @@ (Join(dir4, "misc.gif") :> TextFile("<gif>"))],
       [dirs |-> {dir4},
        fs |-> (Join(dir4, "ac1-b.webp") :> Unreadable)
               @@ (Join(dir4, "ac1-empty-title.png") :> TextFile("<png>"))
               @@ (Join(dir4, "misc.gif") :> TextFile("<gif>"))
               @@ (Join(dir4, "ac9-other.png") :> TextFile("<other>"))
               @@ (Join(dir4, "AC2_tasks.JPG") :> TextFile("<jpg>"))] }

InputArgs ==
  { r \o t \o o : r \in {<<>>, <<"--results", "r.json">>},
                  t \in {<<>>, <<"--template", "t.html">>},
                  o \in {<<>>, <<"--output", "/out/report.html">>} }

\* runs that differ in where the inputs are
InitInputs ==
  \E r \in ResultsLayouts, t \in TemplateLayouts, e \in EvidenceLayouts :
    /\ args \in InputArgs
    /\ dirs = e.dirs
    /\ disk = DiskOf(r @@ t @@ e.fs @@ (ConfigPath :> TextFile(cfgFull)))

\* the states of the definition sources
CustomStates == {NoFile, Unreadable, TextFile(cfgCustom), TextFile(cfgNoAC)}
ConfigStates ==
  { NoFile, Unreadable, TextFile(cfgFull), TextFile(cfgNoAC), TextFile(cfgMalformed),
    TextFile(cfgLoose), TextFile(cfgBlankName) }
MdStates ==
  << {NoFile, TextFile(mdDoc), TextFile(mdNoAC)}, {NoFile, TextFile(mdSecond)},
     {NoFile, Unreadable, TextFile(mdThird)} >>

Inputs(tree) ==
  (ResultsCandidates[1] :> JsonFile(tree)) @@ (BundledTemplate :> TemplateFile(templateFull))

\* runs that differ in the definition sources
InitSources ==
  \E custom \in CustomStates, config \in ConfigStates,
     md1 \in MdStates[1], md2 \in MdStates[2], md3 \in MdStates[3],
     tree \in {ResultsOf(<<>>), ResultsOf(<<specPassed>>), ResultsOf(<<specUntagged, specSkipped>>)} :
    /\ args \in {<<>>, <<"--config", "custom.yml">>, <<"--config">>}
    /\ dirs = {}
    /\ disk = DiskOf(Inputs(tree) @@ (CustomPath :> custom) @@ (ConfigPath :> config)
                     @@ (mdCandidates[1] :> md1) @@ (mdCandidates[2] :> md2)
                     @@ (mdCandidates[3] :> md3))

\* runs that differ in the tests of the results file
InitTests ==
  \E tree \in ResultsTrees :
    \E sources \in { Empty, ConfigPath :> TextFile(cfgFull), mdCandidates[1] :> TextFile(mdDoc),
                     (CustomPath :> TextFile(cfgCustom)) @@ (ConfigPath :> TextFile(cfgFull)) } :
      /\ args \in {<<>>, <<"--config", "custom.yml">>}
      /\ dirs = {}
      /\ disk = DiskOf(Inputs(tree) @@ sources)

\* runs of one passed test of AC-1 with a screenshot, without configuration
\* and markdown document
InitScenario ==
  \E dir \in Range(EvidenceCandidates), notes \in {NoFile, TextFile("notes")} :
    /\ args \in {<<>>, <<"--output", "/out/report.html">>}
    /\ dirs = {dir}
    /\ disk = DiskOf(Inputs(ResultsOf(<<specCreates>>))
                     @@ (Join(dir, "ac1-item-created.png") :> TextFile("<png>"))
                     @@ (Join(dir, "notes.txt") :> notes))

\* runs on tests and documents with ids of the form AC-X.Y
InitDotted ==
  \E md \in {NoFile, TextFile(mdDotted), TextFile(mdDoc)},
     specs \in {<<specDotOne>>, <<specDotOne, specDotTwo>>, <<specDotTwo, specPassed>>} :
    /\ args \in {<<>>, <<"--output", "/out/report.html">>}
    /\ dirs = {}
    /\ disk = DiskOf(Inputs(ResultsOf(specs)) @@ (mdCandidates[1] :> md))

\* specs with a retried test, with a test per project, without tests, and
\* with a first test that has no result while a later one has
specRetried ==
  [title |-> "AC-1: retries login", line |-> 60,
   tests |-> <<[projectName |-> "chromium",
                results |-> <<Result("failed", 700, <<[text |-> "try 1\n"]>>,
                                     <<[message |-> "timeout"]>>),
                              Result("passed", 90, <<[text |-> "try 2\n"]>>, <<>>)>>]>>]
specTwoProjects ==
  [title |-> "AC-2: lists tasks twice", line |-> 70,
   tests |-> <<[projectName |-> "api", results |-> <<Result("passed", 40, <<>>, <<>>)>>],
               [projectName |-> "chromium",
                results |-> <<Result("failed", 500, <<>>, <<[message |-> "no list"]>>)>>]>>]
specNoTests == [title |-> "AC-3: pending", line |-> 80, tests |-> <<>>]
specLateResults ==
  [title |-> "AC-4: late", line |-> 90,
   tests |-> <<[projectName |-> "api", results |-> <<>>],
               [projectName |-> "chromium", results |-> <<Result("passed", 10, <<>>, <<>>)>>]>>]

RetryShapes == {specRetried, specTwoProjects, specNoTests, specLateResults, specPassed}

\* a results tree with every spec one suite deeper than the one before
RECURSIVE DeepSuites(_)
DeepSuites(specs) ==
  IF Len(specs) = 0 THEN <<>>
  ELSE << [file |-> "tests/a.spec.ts", specs |-> <<Head(specs)>>,
           suites |-> DeepSuites(Tail(specs))] >>

\* runs on specs with several tests and several results, in flat and in
\* deeply nested suites
InitRetries ==
  \E specs \in [1..MaxSpecs -> RetryShapes] :
    \E tree \in {ResultsOf(specs), [suites |-> DeepSuites(specs)]},
       sources \in {Empty, ConfigPath :> TextFile(cfgFull)} :
      /\ args = <<>>
      /\ dirs = {}
      /\ disk = DiskOf(Inputs(tree) @@ sources)

\* a spec whose log holds a colour sequence with two parameters
specColoured ==
  [title |-> "AC-1: shows alert", line |-> 95,
   tests |-> <<[projectName |-> "chromium",
                results |-> <<Result("passed", 210,
                                     <<[text |-> ESC \o "[1;31mred" \o ESC \o "[0m\n"],
                                       [text |-> "done [ok] 3m\n"]>>,
                                     <<>>)>>]>>]

\* a spec whose test ran into the time limit
specTimedOut ==
  [title |-> "AC-2: syncs tasks", line |-> 97,
   tests |-> <<[projectName |-> "api", results |-> <<Result("timedOut", 5000, <<>>, <<>>)>>]>>]

\* runs on tests with coloured logs and on a test that timed out
InitLogs ==
  \E specs \in {<<specColoured>>, <<specFailed, specColoured>>, <<specFailed, specUntagged>>,
                 <<specTimedOut>>, <<specPassed, specTimedOut, specSkipped>>} :
    /\ args \in {<<>>, <<"--output", "/out/report.html">>}
    /\ dirs = {}
    /\ disk = DiskOf(Inputs(ResultsOf(specs)))

RepInit ==
  /\ InitInputs \/ InitSources \/ InitTests \/ InitScenario \/ InitDotted \/ InitRetries
     \/ InitLogs
  /\ pc = "start"
  /\ files = <<>>
  /\ scanned = 0
  /\ allViolations = <<>>
  /\ stdout = <<>>
  /\ stderr = <<>>
  /\ exitCode = -1
  /\ RepIdle

SpecReport == RepInit /\ [][RepNext]_vars

(***************************************************************************)
(* The post-tool hook (agents/test-reviewer.md, lines 39-79): it is given  *)
(* the path of the file that was written and runs the linter on it when    *)
(* the file's name is that of a test file.                                 *)
(***************************************************************************)
\* the patterns of the hook's case statement (lines 52-59), matched against
\* the whole base name: * is any run of characters
HookPatterns ==
  << <<Star(NameChars), Lit(".spec"), Lit(".js")>>,
     <<Star(NameChars), Lit(".test"), Lit(".js")>>,
     <<Star(NameChars), Lit(".spec"), Lit(".ts")>>,
     <<Star(NameChars), Lit(".test"), Lit(".ts")>>,
     <<Star(NameChars), Lit("Tests"), Lit(".cs")>>,
     <<Lit("test_"), Star(NameChars), Lit(".py")>>,
     <<Star(NameChars), Lit("_test"), Lit(".py")>>,
     <<Star(NameChars), Lit("_test"), Lit(".go")>> >>

\* case "$BASENAME" in ... (lines 51-64)
HookMatches(basename) ==
  \E i \in 1..Len(HookPatterns) : MatchAt(basename, Append(HookPatterns[i], Eos), 1) # 0

\* "$1" (line 44)
FILE_PATH == IF Len(args) = 0 THEN "" ELSE args[1]

\* ${PLUGIN_ROOT}/scripts/test-integrity-linter.js (line 70)
LINTER == "/plugin/scripts/test-integrity-linter.js"

\* the hook up to the call of the linter (lines 44-77): without argument, for
\* a name that is no test file's, and without the linter's script it exits
\* 0; otherwise node runs the linter with --file, and the linter's exit
\* status is the hook's
PostToolHook ==
  /\ pc = "hook"
  /\ UNCHANGED repVars
  /\ UNCHANGED <<dirs, disk, files, scanned, allViolations, stderr>>
  /\ IF FILE_PATH = "" \/ ~HookMatches(Name(FILE_PATH))
     THEN /\ exitCode' = 0
          /\ pc' = "exited"
          /\ UNCHANGED <<args, stdout>>
     ELSE IF disk[LINTER].state # "ok"
     THEN /\ stdout' = <<[t |-> "linter-not-found", file |-> LINTER]>>
          /\ exitCode' = 0
          /\ pc' = "exited"
          /\ UNCHANGED args
     ELSE /\ args' = <<"--file", FILE_PATH>>
          /\ pc' = "start"
          /\ UNCHANGED <<stdout, exitCode>>

HookNext == PostToolHook \/ LintDiscover \/ LintScanFile \/ LintReport

\* the files the hook is called for
HookFiles ==
  { "tests/a.spec.ts", "tests/b.test.js", "tests/c.spec.mjs", "tests/helper.ts",
    "e2e/LoginTests.cs", "e2e/test_login.py", "e2e/xtest_a.py", "tests/x_test.go" }

\* the hook is called without argument or for a file that was written, that
\* was removed since, or that cannot be read; the linter's script is there
\* or not
HookInit ==
  /\ \E linter \in {"ok", "absent"} :
       \/ /\ args = <<>>
          /\ dirs = {}
          /\ disk = [p \in Range(FilePaths) \cup {LINTER} |->
                       IF p = LINTER THEN [state |-> linter, content |-> <<>>] ELSE Absent]
       \/ \E f \in HookFiles :
            /\ args = <<f>>
            /\ dirs = Ancestors(f)
            /\ \E file \in {Absent, [state |-> "unreadable", content |-> <<>>]}
                           \cup { [state |-> "ok", content |-> JoinLines(ls)] :
                                    ls \in [1..MaxLines -> LinesFor(f)] } :
                 disk = [p \in Range(FilePaths) \cup {LINTER} |->
                           IF p = LINTER THEN [state |-> linter, content |-> <<>>]
                           ELSE IF p = f THEN file ELSE Absent]
  /\ RepIdle
  /\ pc = "hook"
  /\ files = <<>>
  /\ scanned = 0
  /\ allViolations = <<>>
  /\ stdout = <<>>
  /\ stderr = <<>>
  /\ exitCode = -1

SpecHook == HookInit /\ [][HookNext]_vars

(***************************************************************************)
(* Properties of the report generator.                                     *)
(***************************************************************************)
\* the files loadACDefinitions is to ask, in the order it is to ask them
C9_Files ==
  (IF cliConfig # NoArg THEN <<Resolved(cliConfig)>> ELSE <<>>)
  \o << "/proj/teamwerk-config.yml", "/proj/docs/acceptance-criteria.md",
        "/proj/docs/acceptance_criteria.md", "/proj/acceptance-criteria.md" >>

\* what the i-th of these files has to give
C9_Yield(i) ==
  IF i <= Len(C9_Files) - 3 THEN loadACFromConfig(C9_Files[i])
  ELSE loadACFromMarkdown(C9_Files[i])

\* C9: loadACDefinitions asks the explicit --config file, teamwerk-config.yml
\* in the project root, the markdown candidates in list order and then the
\* test titles; a source that is missing, unreadable or without definitions
\* is passed over without an error; the first source with a definition is
\* what main gets, and no later file is looked at
C9_SourceOrder ==
  pc = "loaded" =>
    LET yielding == { i \in 1..Len(C9_Files) : C9_Yield(i).ok }
    IN /\ exitCode = -1
       /\ \A i \in 1..Len(stderr) : stderr[i].t # "uncaught-exception"
       /\ IF yielding # {}
          THEN /\ fsReads = SubSeq(C9_Files, 1, SetMin(yielding))
               /\ AC_DEFINITIONS = C9_Yield(SetMin(yielding)).definitions
               /\ AC_MINIMUMS = C9_Yield(SetMin(yielding)).minimums
          ELSE /\ fsReads = C9_Files
               /\ AC_DEFINITIONS = loadACFromTestResults(results).definitions
               /\ AC_MINIMUMS = loadACFromTestResults(results).minimums

\* an explicit configuration that cannot be read is passed over, the
\* configuration in the project root and a markdown document describe AC-1
\* differently, and the description of the configuration is used while the
\* markdown document is not looked at
C9_Witness ==
  /\ pc = "loaded"
  /\ cliConfig # NoArg
  /\ disk[Resolved(cliConfig)].state = "unreadable"
  /\ loadACFromConfig("/proj/teamwerk-config.yml").ok
  /\ loadACFromMarkdown("/proj/docs/acceptance-criteria.md").ok
  /\ ObjGet(loadACFromMarkdown("/proj/docs/acceptance-criteria.md").definitions, "AC-1")
       = "Markdown login"
  /\ ObjGet(AC_DEFINITIONS, "AC-1") = "Config login"
  /\ fsReads = <<Resolved(cliConfig), "/proj/teamwerk-config.yml">>

\* the report has been computed
Compiled == pc = "compiled" \/ (pc = "exited" /\ exitCode = 0)

\* C10: the matrix has a row for every AC of the catalog; with T tests of
\* the AC, F of them not passed, and minimum M, the row's status is PASS
\* exactly when F = 0, T > 0 and T >= M, FAIL exactly when F > 0, and
\* BELOW MIN exactly when F = 0 and (T < M or T = 0)
C10_MatrixStatus ==
  Compiled =>
    /\ Len(report.acRows) = Len(AC_DEFINITIONS)
    /\ \A i \in 1..Len(AC_DEFINITIONS) :
         LET ac == AC_DEFINITIONS[i].k
             T == Cardinality({ j \in 1..Len(allTests) : allTests[j].ac = ac })
             F == Cardinality({ j \in 1..Len(allTests) :
                                  allTests[j].ac = ac /\ allTests[j].status # "passed" })
             M == ObjGet(AC_MINIMUMS, ac)
             status == report.acRows[i].statusBadge
         IN /\ report.acRows[i].ac = ac
            /\ ObjHas(AC_MINIMUMS, ac)
            /\ status \in {"PASS", "FAIL", "BELOW MIN"}
            /\ (status = "PASS") <=> (F = 0 /\ T > 0 /\ T >= M)
            /\ (status = "FAIL") <=> (F > 0)
            /\ (status = "BELOW MIN") <=> (F = 0 /\ (T < M \/ T = 0))

\* an AC with minimum 3 and two tests, both passed: its row says BELOW MIN
C10_Witness ==
  /\ Compiled
  /\ \E i \in 1..Len(report.acRows) :
       /\ report.acRows[i].min = 3
       /\ report.acRows[i].total = 2
       /\ report.acRows[i].passCount = 2
       /\ report.acRows[i].failCount = 0
       /\ report.acRows[i].statusBadge = "BELOW MIN"

\* C11: whatever the configuration gives under minimum-tests, the minimum of
\* every matrix row is an integer of at least 1, and the coverage-gap check
\* uses such a minimum too: an AC without any test is always a gap
C11_MinimumAtLeastOne ==
  Compiled =>
    /\ \A i \in 1..Len(report.acRows) : report.acRows[i].min >= 1
    /\ \A i \in 1..Len(report.gaps) : report.gaps[i].min >= 1
    /\ \A i \in 1..Len(report.acRows) :
         report.acRows[i].total = 0 =>
           \E g \in 1..Len(report.gaps) : report.gaps[g].ac = report.acRows[i].ac

\* an id of the form AC-<digits>
C12_IsACId(k) ==
  /\ Len(k) > 3
  /\ SubSeq(k, 1, 3) = "AC-"
  /\ \A i \in 4..Len(k) : SubSeq(k, i, i) \in Digit

\* C12: every key of the AC catalog, and so every row of the traceability
\* matrix, is an id of the form AC-<digits>, whichever source gave the catalog
C12_IdsMatchPattern ==
  /\ pc \in {"loaded", "ingested"} \/ Compiled =>
       \A i \in 1..Len(AC_DEFINITIONS) : C12_IsACId(AC_DEFINITIONS[i].k)
  /\ Compiled => \A i \in 1..Len(report.acRows) : C12_IsACId(report.acRows[i].ac)

\* the length of the AC-<digits> prefix of a title, 0 when it has none
C13_PrefixLen(title) ==
  IF Len(title) > 3 /\ SubSeq(title, 1, 3) = "AC-" /\ SubSeq(title, 4, 4) \in Digit
  THEN SetMax({ n \in 4..Len(title) : \A i \in 4..n : SubSeq(title, i, i) \in Digit })
  ELSE 0

\* the test records with the AC-<digits> prefix ac
C13_Tagged(ac) ==
  { j \in 1..Len(allTests) :
      /\ C13_PrefixLen(allTests[j].title) > 0
      /\ SubSeq(allTests[j].title, 1, C13_PrefixLen(allTests[j].title)) = ac }

\* C13: a test record whose title has no AC-<number> prefix is counted in
\* TOTAL and in PASSED or FAILED, but in no row of the matrix, has no card in
\* any detail section, and no AC definition comes from it
C13_UntaggedOnlyInTotals ==
  Compiled =>
    /\ report.totalTests = Len(allTests)
    /\ report.passed = Cardinality({ j \in 1..Len(allTests) : allTests[j].status = "passed" })
    /\ report.failed = Cardinality({ j \in 1..Len(allTests) : allTests[j].status # "passed" })
    /\ \A i \in 1..Len(report.acRows) :
         report.acRows[i].total = Cardinality(C13_Tagged(report.acRows[i].ac))
    /\ \A i \in 1..Len(report.acDetailSections) :
         Len(report.acDetailSections[i].cards)
           = Cardinality(C13_Tagged(report.acDetailSections[i].ac))
    /\ \A i \in 1..Len(AC_DEFINITIONS) :
         \/ ObjHas(loadACDefinitions(results).data.definitions, AC_DEFINITIONS[i].k)
         \/ C13_Tagged(AC_DEFINITIONS[i].k) # {}

\* a run with a passed test without prefix and a test of AC-1: both are in
\* the totals, the matrix counts one test
C13_Witness ==
  /\ Compiled
  /\ \E j \in 1..Len(allTests) :
       C13_PrefixLen(allTests[j].title) = 0 /\ allTests[j].status = "passed"
  /\ C13_Tagged("AC-1") # {}
  /\ report.totalTests = 2
  /\ report.passed = 2
  /\ \E i \in 1..Len(report.acRows) :
       report.acRows[i].ac = "AC-1" /\ report.acRows[i].total = 1
  /\ Len(report.acDetailSections) = 1

\* the results file and the template were found and read, and the results
\* hold no suite
C14_EmptyRun == fsReads # <<>> /\ Len(results.suites) = 0

\* C14: with a results file without suites and a template, the generator
\* finishes without error and writes the document with TOTAL, PASSED and
\* FAILED 0 and without a detail section, whatever AC catalog or evidence
\* directory there is
C14_EmptyRunWritesReport ==
  C14_EmptyRun =>
    /\ pc # "crashed"
    /\ \A i \in 1..Len(stderr) : stderr[i].t # "uncaught-exception"
    /\ pc = "exited" =>
         /\ exitCode = 0
         /\ Len(output) = 1
         /\ Len(report.acDetailSections) = 0
         /\ \A i \in 1..Len(template) :
              /\ template[i] \in {"{{TOTAL}}", "{{PASSED}}", "{{FAILED}}"}
                   => output[1].html[i] = [t |-> "text", v |-> "0"]
              /\ template[i] = "<!-- {{AC_DETAIL_SECTIONS}} -->"
                   => output[1].html[i] = [t |-> "acDetailSections", v |-> <<>>]

\* no configuration, no markdown document, the one spec 'AC-1: Creates item'
\* (passed, 120 ms) and the evidence file ac1-item-created.png
C15_Scenario ==
  /\ Compiled
  /\ cliConfig = NoArg
  /\ disk["/proj/teamwerk-config.yml"].state = "absent"
  /\ \A i \in 1..Len(mdCandidates) : disk[mdCandidates[i]].state = "absent"
  /\ Len(allTests) = 1
  /\ allTests[1].title = "AC-1: Creates item"
  /\ allTests[1].status = "passed"
  /\ allTests[1].duration = 120
  /\ \E d \in dirs :
       /\ dirs = {d}
       /\ disk[d \o "/ac1-item-created.png"].state = "ok"
       /\ \A f \in EvidenceNames :
            (f # "ac1-item-created.png" /\ disk[d \o "/" \o f].state # "absent")
              => f = "notes.txt"

C16_ValueTokens ==
  {"{{PROJECT_NAME}}", "{{TIMESTAMP}}", "{{DURATION}}", "{{TOTAL}}", "{{PASSED}}", "{{FAILED}}"}
C16_BlockTokens ==
  { "<!-- {{AC_ROWS}} -->", "<!-- {{AC_DETAIL_SECTIONS}} -->", "<!-- {{SECURITY_ROWS}} -->",
    "<!-- {{GAPS}} -->", "<!-- {{REVIEW_SUMMARY}} -->" }

\* C16: whatever placeholder tokens the template leaves out, populating it
\* raises no error, the text of the template that is no placeholder token
\* stays as it is, and every placeholder the template has is substituted
C16_PopulateTolerant ==
  /\ fsReads # <<>> => pc # "crashed"
  /\ (pc = "exited" /\ exitCode = 0) =>
       /\ Len(output) = 1
       /\ Len(output[1].html) = Len(template)
       /\ \A i \in 1..Len(template) :
            /\ template[i] \notin (C16_ValueTokens \cup C16_BlockTokens)
                 => output[1].html[i] = [t |-> "template", v |-> template[i]]
            /\ template[i] \in C16_ValueTokens => output[1].html[i].t = "text"
            /\ (/\ template[i] \in C16_BlockTokens
                /\ \A j \in 1..(i - 1) : template[j] # template[i])
                 => output[1].html[i].t # "template"

\* the results file is missing: the file named by --results, or every
\* conventional place when --results is not given
C17_ResultsMissing ==
  IF cliResults # NoArg THEN disk["/proj/" \o cliResults].state = "absent"
  ELSE \A i \in 1..Len(ResultsCandidates) : disk[ResultsCandidates[i]].state = "absent"

\* the template is missing: the file named by --template, or the bundled one
C17_TemplateMissing ==
  IF cliTemplate # NoArg THEN disk["/proj/" \o cliTemplate].state = "absent"
  ELSE disk[BundledTemplate].state = "absent"

\* C17: when the results file or the template is missing, the generator ends
\* with exit status 1 and a message, before any AC source is read and
\* without an output file; a missing file named by --results or --template
\* is fatal even when a conventional or the bundled file exists
C17_MissingInputIsFatal ==
  ((C17_ResultsMissing \/ C17_TemplateMissing) /\ pc # "start") =>
    /\ pc = "exited"
    /\ exitCode = 1
    /\ Len(stderr) > 0
    /\ stderr[1].t \in {"results-not-found", "no-results-found", "template-not-found",
                        "no-template-found"}
    /\ fsReads = <<>>
    /\ AC_DEFINITIONS = <<>>
    /\ output = <<>>
    /\ stdout = <<>>

\* the file named by --results does not exist while a results file is at a
\* conventional place and the template is there: the run has ended with 1
C17_Witness ==
  /\ pc = "exited"
  /\ exitCode = 1
  /\ cliResults # NoArg
  /\ disk["/proj/" \o cliResults].state = "absent"
  /\ disk[ResultsCandidates[1]].state = "ok"
  /\ ~C17_TemplateMissing
  /\ stderr[1].t = "results-not-found"
  /\ output = <<>>

\* C18: in --json mode every run of the linter that ends, also the run that
\* finds no test directory and the run whose --file is missing, prints one
\* summary object with the fields files, violations, critical, warnings and
\* status, where critical + warnings is the number of violations and status
\* is blocked iff critical > 0, warnings iff critical = 0 and warnings > 0,
\* and clean otherwise
C18_JsonSummaryShape ==
  (jsonOutput /\ pc = "exited") =>
    /\ Len(stdout) = 1
    /\ stdout[1].t = "json"
    /\ {"files", "violations", "critical", "warnings", "status"} \subseteq DOMAIN stdout[1].v
    /\ stdout[1].v.critical + stdout[1].v.warnings = Len(stdout[1].v.violations)
    /\ stdout[1].v.status =
         IF stdout[1].v.critical > 0 THEN "blocked"
         ELSE IF stdout[1].v.warnings > 0 THEN "warnings" ELSE "clean"

\* the path the hook was called with
C19_Path ==
  IF Len(args) = 0 THEN ""
  ELSE IF args[1] = "--file" THEN args[2] ELSE args[1]

\* the linter has been run on the hook's file
C19_LinterRan == Len(args) = 2 /\ args[1] = "--file" /\ pc # "start"

\* C19: for every file name that isTestFile accepts, the hook runs the
\* linter with --file on the file and ends with the linter's exit status;
\* for every other name, and without argument, it ends with 0 and does not
\* run the linter
C19_HookMatchesLinter ==
  (pc \in {"exited", "crashed"} /\ disk[LINTER].state = "ok") =>
    IF C19_Path # "" /\ isTestFile(Name(C19_Path))
    THEN /\ C19_LinterRan
         /\ exitCode = IF disk[C19_Path].state # "ok" \/ HasCritical(allViolations) THEN 1 ELSE 0
    ELSE /\ ~C19_LinterRan
         /\ exitCode = 0
         /\ stdout = <<>>

\* the AC-X.Y id a title begins with, "" when it begins with none
C20_DottedId(title) ==
  LET c == Chars(title)
      x == Run(c, Digit, 4)
      y == Run(c, Digit, 5 + x)
  IN IF /\ Len(c) > 5
        /\ SubSeq(title, 1, 3) = "AC-"
        /\ x > 0
        /\ 4 + x <= Len(c)
        /\ c[4 + x] = "."
        /\ y > 0
     THEN SubSeq(title, 1, 4 + x + y) ELSE ""

\* C20: the report generator parses AC-X.Y ids: a test titled 'AC-1.1: ...'
\* has the AC id AC-1.1 and is counted under the definition AC-1.1 of the
\* acceptance-criteria document, so tests of AC-1.1 and AC-1.2 are counted
\* under two ACs and not together under AC-1
C20_DottedIdsKeptApart ==
  Compiled =>
    \A j \in 1..Len(allTests) :
      LET id == C20_DottedId(allTests[j].title)
      IN id # "" =>
           /\ allTests[j].ac = id
           /\ \E i \in 1..Len(report.acRows) :
                /\ report.acRows[i].ac = id
                /\ report.acRows[i].total
                     = Cardinality({ k \in 1..Len(allTests) :
                                       C20_DottedId(allTests[k].title) = id })
           /\ ObjHas(loadACFromMarkdown(mdCandidates[1]).definitions, id)
                => ObjGet(AC_DEFINITIONS, id)
                     = ObjGet(loadACFromMarkdown(mdCandidates[1]).definitions, id)

\* the file, rule and line of every match of every applicable rule in every
\* scanned file, in the order of the scan: the line is that of the match's
\* own offset
C21_Expected ==
  Flatten([i \in 1..Len(files) |->
    LET content == disk[files[i]].content
        rules == applicablePatterns(Lang(files[i]))
    IN Flatten([r \in 1..Len(rules) |->
         LET spans == MatchSpans(content, rules[r].pattern, 1)
         IN [m \in 1..Len(spans) |->
               [file |-> files[i], id |-> rules[r].id,
                line |-> LineOf(content, spans[m][1])]]])])

\* C21: every match of a rule in a file gives a violation whose line is 1
\* plus the number of newlines before the start of that match, at least 1,
\* and whose context is not empty and holds that line; this is so for the
\* second and later matches with the same text as an earlier match too
C21_LineOfEachMatch ==
  (pc = "scan" /\ scanned = Len(files)) =>
    /\ Len(allViolations) = Len(C21_Expected)
    /\ \A j \in 1..Len(allViolations) :
         /\ allViolations[j].file = C21_Expected[j].file
         /\ allViolations[j].id = C21_Expected[j].id
         /\ allViolations[j].line = C21_Expected[j].line
         /\ allViolations[j].line >= 1
         /\ allViolations[j].context # <<>>
         /\ \E k \in 1..Len(SplitLines(allViolations[j].context)) :
              SplitLines(allViolations[j].context)[k]
                = SplitLines(disk[allViolations[j].file].content)[allViolations[j].line]

\* the language a path's extension names, none for any other extension
C22_ExtensionLang(p) ==
  LET filePath == PathLexemes(p)
  IN IF \E e \in {".js", ".ts", ".mjs"} : RegexTest(<<Lit(e), Eos>>, filePath) THEN "js"
     ELSE IF RegexTest(<<Lit(".cs"), Eos>>, filePath) THEN "cs"
     ELSE IF RegexTest(<<Lit(".py"), Eos>>, filePath) THEN "py"
     ELSE "none"

\* the file and rule of every match of the rules of each scanned file's
\* extension, in the order of the scan
C22_Expected ==
  Flatten([i \in 1..Len(files) |->
    LET content == disk[files[i]].content
        rules == SelectSeq(ALL_VIOLATION_PATTERNS,
                           LAMBDA rule : rule.lang = C22_ExtensionLang(files[i]))
    IN Flatten([r \in 1..Len(rules) |->
         [m \in 1..Len(MatchSpans(content, rules[r].pattern, 1)) |->
            [file |-> files[i], id |-> rules[r].id]]])])

\* C22: a file is scanned with exactly the rules of its extension's language:
\* script rules for .js, .ts and .mjs only, C# rules for .cs only, Python
\* rules for .py only, and no rule, hence no violation, for any other
\* extension
C22_RulesOfExtension ==
  (pc = "scan" /\ scanned = Len(files)) =>
    /\ Len(allViolations) = Len(C22_Expected)
    /\ \A j \in 1..Len(allViolations) :
         /\ allViolations[j].file = C22_Expected[j].file
         /\ allViolations[j].id = C22_Expected[j].id

\* the AC lines of a markdown text from position p on, in document order
RECURSIVE C23_Lines(_, _)
C23_Lines(s, p) ==
  IF p > Len(s) THEN <<>>
  ELSE LET q == MdPrefixEnd(Chars(s), p)
           m == IF q = 0 THEN NoAC ELSE ACMatch(s, q)
       IN IF m.ok THEN <<m>> \o C23_Lines(s, m.end) ELSE C23_Lines(s, p + 1)

\* the markdown document the definitions were taken from, NoArg when they
\* come from another source
C23_Document ==
  IF fsReads # <<>> /\ fsReads[Len(fsReads)] \in Range(mdCandidates)
     /\ loadACFromMarkdown(fsReads[Len(fsReads)]).ok
  THEN fsReads[Len(fsReads)] ELSE NoArg

\* C23: when a markdown document has several lines that begin with the same
\* AC id, the description kept for the id is the text of the first of them
C23_FirstLineWins ==
  (pc = "loaded" /\ C23_Document # NoArg) =>
    LET ls == C23_Lines(disk[C23_Document].content.text, 1)
    IN \A i \in 1..Len(AC_DEFINITIONS) :
         LET same == { j \in 1..Len(ls) : ls[j].id = AC_DEFINITIONS[i].k }
         IN /\ same # {}
            /\ AC_DEFINITIONS[i].v = Without(Trim(ls[SetMin(same)].desc), "*")

\* the specs of the results file, at any depth, whose first test has a result
C24_Counted ==
  LET specs == SpecsOf(results.suites)
  IN SelectSeq(specs, LAMBDA s : /\ Len(s.spec.tests) > 0
                                 /\ Len(s.spec.tests[1].results) > 0)

\* the specs of the results file, at any depth, with a test that has a result
C24_WithSomeResult ==
  LET specs == SpecsOf(results.suites)
  IN SelectSeq(specs, LAMBDA s : \E t \in 1..Len(s.spec.tests) :
                                    Len(s.spec.tests[t].results) > 0)

\* the tests have been taken from the results file
Ingested == pc = "ingested" \/ Compiled

\* the records are those of the given specs, one each and in their order,
\* with the status, duration, log and errors of tests[0].results[0]
C24_RecordsOf(specs) ==
  /\ Len(allTests) = Len(specs)
  /\ \A k \in 1..Len(allTests) :
       LET first == specs[k].spec.tests[1].results[1]
       IN /\ allTests[k].title = specs[k].spec.title
          /\ allTests[k].status = first.status
          /\ allTests[k].duration = first.duration
          /\ allTests[k].stdout = JoinStdout(first.stdout)
          /\ allTests[k].errors = first.errors
  /\ Compiled => report.totalTests = Len(specs)

\* C24 as stated: every spec, at any depth, with at least one test whose
\* result list is not empty gives exactly one record, with the status,
\* duration, log and errors of tests[0].results[0]; every other spec gives
\* none and is not counted in the total
C24_OneRecordPerSpecWithResult ==
  Ingested => C24_RecordsOf(C24_WithSomeResult)

\* C24, amended: every spec, at any depth, whose first test has a result
\* gives exactly one record, with the status, duration, log and errors of
\* tests[0].results[0] whatever later tests and later results hold; a spec
\* without tests or whose first test has no result gives none and is not
\* counted in the total
C24_FirstTestFirstResult ==
  Ingested => C24_RecordsOf(C24_Counted)

\* a run on three suites nested in each other: a retried test, a test run in
\* two projects, and a spec whose first test has no result
C24_Witness ==
  /\ Compiled
  /\ results.suites = DeepSuites(<<specRetried, specTwoProjects, specLateResults>>)
  /\ Len(allTests) = 2
  /\ allTests[1].status = "failed"
  /\ allTests[2].status = "passed"
  /\ report.totalTests = 2

\* the number of tests that carry the AC
C25_Count(ac) == Cardinality({ j \in 1..Len(allTests) : allTests[j].ac = ac })

\* the ids of the coverage-gap list
C25_GapIds == { report.gaps[g].ac : g \in 1..Len(report.gaps) }

\* the gap list holds exactly the ACs with fewer tests than their minimum,
\* the all-meet-minimum message stands for an empty list, and no AC with a
\* PASS row is in the list
C25_BelowMinimumOnly ==
  /\ C25_GapIds = { AC_DEFINITIONS[i].k : i \in { j \in 1..Len(AC_DEFINITIONS) :
                      C25_Count(AC_DEFINITIONS[j].k)
                        < MinimumOf(AC_MINIMUMS, AC_DEFINITIONS[j].k) } }
  /\ report.hasGaps <=> C25_GapIds # {}
  /\ \A i \in 1..Len(report.acRows) :
       report.acRows[i].statusBadge = "PASS" => report.acRows[i].ac \notin C25_GapIds

\* C25: the coverage-gap list holds exactly the ACs of the catalog with
\* fewer tests than their minimum; the all-criteria-meet-minimum message is
\* given exactly when there is none; no AC with a PASS row is in the list,
\* and every AC without any test is in it
C25_GapList ==
  Compiled =>
    /\ C25_BelowMinimumOnly
    /\ \A i \in 1..Len(AC_DEFINITIONS) :
         C25_Count(AC_DEFINITIONS[i].k) = 0 => AC_DEFINITIONS[i].k \in C25_GapIds


\* the length of ESC [ parameters m at the start of the characters c, the
\* parameters being digits and semicolons; 0 when c does not start with one
C26_ColourLen(c) ==
  LET d == Run(c, Digit \cup {";"}, 3)
  IN IF Len(c) >= 3 /\ c[1] = ESC /\ c[2] = "[" /\ 3 + d <= Len(c) /\ c[3 + d] = "m"
     THEN 3 + d ELSE 0

\* the text without its colour sequences
RECURSIVE C26_Plain(_)
C26_Plain(str) ==
  IF Len(str) = 0 THEN ""
  ELSE LET n == C26_ColourLen(Chars(str))
       IN IF n > 0 THEN C26_Plain(SubSeq(str, n + 1, Len(str)))
          ELSE SubSeq(str, 1, 1) \o C26_Plain(SubSeq(str, 2, Len(str)))

\* the chunks of a log, each without its colour sequences, put together
RECURSIVE C26_PlainLog(_)
C26_PlainLog(chunks) ==
  IF Len(chunks) = 0 THEN ""
  ELSE C26_Plain(Head(chunks).text) \o C26_PlainLog(Tail(chunks))

\* C26: the log of every test record holds no colour sequence: every
\* ESC [ ... m, also one with several parameters such as ESC[1;31m, is
\* taken out, and all other characters are kept in their order
C26_LogsWithoutColour ==
  (Ingested /\ Len(allTests) = Len(C24_Counted)) =>
    \A k \in 1..Len(allTests) :
      allTests[k].stdout = C26_PlainLog(C24_Counted[k].spec.tests[1].results[1].stdout)


\* the AC an evidence file is named after: its ac<number> prefix in either
\* case, NoArg when it has none
C27_Owner(f) ==
  LET c == Chars(toLowerCase(f))
      d == Run(c, Digit, 3)
  IN IF Len(c) >= 3 /\ c[1] = "a" /\ c[2] = "c" /\ d > 0
     THEN "AC-" \o SubSeq(f, 3, 2 + d) ELSE NoArg

\* the images of the evidence directory that are named after the AC
C27_ImagesOf(ac) == SelectSeq(report.evidenceFiles, LAMBDA f : C27_Owner(f) = ac)

\* what a section embeds of the given images: those that can be read
C27_Embedded(dir, images) ==
  LET shown == SelectSeq(images, LAMBDA f : readable(Join(dir, f)))
  IN [i \in 1..Len(shown) |->
        [data |-> disk[Join(dir, shown[i])].content.text,
         alt |-> escapeHtml(getScreenshotDescription(shown[i]))]]

\* C27: an evidence image is embedded only in the detail section of the AC
\* its ac<number> prefix names; an image without such a prefix, one whose AC
\* is not in the catalog and one whose AC has no test are embedded nowhere,
\* and an evidence file never creates an AC definition
C27_ImagesInOwnSection ==
  Compiled =>
    /\ \A s \in 1..Len(report.acDetailSections) :
         LET sec == report.acDetailSections[s]
             own == C27_Embedded(findEvidenceDir, C27_ImagesOf(sec.ac))
         IN /\ sec.screenshots = Len(C27_ImagesOf(sec.ac))
            /\ Len(sec.grid) = Len(own)
            /\ \A g \in 1..Len(own) : /\ sec.grid[g].src.data = own[g].data
                                      /\ sec.grid[g].alt = own[g].alt
    /\ \A i \in 1..Len(AC_DEFINITIONS) :
         \/ ObjHas(loadACDefinitions(results).data.definitions, AC_DEFINITIONS[i].k)
         \/ \E j \in 1..Len(allTests) : allTests[j].ac = AC_DEFINITIONS[i].k

\* a report on an evidence directory with an image of AC-1, which has tests,
\* an image of AC-2, which is in the catalog without a test, an image of
\* AC-9, which is not in the catalog, and an image without prefix: the one
\* section is that of AC-1 and embeds the one image of AC-1
C27_Witness ==
  /\ Compiled
  /\ report.evidenceFiles
       = <<"AC2_tasks.JPG", "ac1-b.webp", "ac1-empty-title.png", "ac9-other.png", "misc.gif">>
  /\ ObjHas(AC_DEFINITIONS, "AC-2")
  /\ ~ObjHas(AC_DEFINITIONS, "AC-9")
  /\ Len(report.acDetailSections) = 1
  /\ report.acDetailSections[1].ac = "AC-1"
  /\ Len(report.acDetailSections[1].grid) = 1
  /\ report.acDetailSections[1].grid[1].alt = "Empty Title"

\* C28: the status in the header of an AC's detail section is the status of
\* the AC's matrix row (PASS, FAIL or BELOW MIN); an AC without failures but
\* with fewer tests than its minimum is not shown as PASS in its section
C28_SectionStatusIsRowStatus ==
  Compiled =>
    \A s \in 1..Len(report.acDetailSections) :
      \A i \in 1..Len(report.acRows) :
        report.acRows[i].ac = report.acDetailSections[s].ac =>
          report.acDetailSections[s].statusBadge = report.acRows[i].statusBadge


\* the records that carry an AC id
C29_Tagged == { j \in 1..Len(allTests) : allTests[j].ac # NoArg }

RECURSIVE C29_Sum(_)
C29_Sum(ns) == IF Len(ns) = 0 THEN 0 ELSE Head(ns) + C29_Sum(Tail(ns))

\* the ids the definition source in use gives
C29_SourceDefs == loadACDefinitions(results).data.definitions

C30_NotPassed(ac) ==
  { j \in 1..Len(allTests) : allTests[j].ac = ac /\ allTests[j].status # "passed" }

====
